---- MODULE Spec2Model ----
(***************************************************************************)
(* A model of symboval: the symbol mapper (generator/symbol_mapper.py),    *)
(* the prompt builder's legend (symboval/generator/prompt_builder.py) and  *)
(* the batch evaluation loop (symboval/evaluator/evaluator.py).            *)
(*                                                                         *)
(* Text is a sequence of characters; a character is a one-element name     *)
(* ("1", "+", or the name of a Unicode glyph such as "oplus" for U+2295).  *)
(* A Python dict is a sequence of <<key, value>> pairs in insertion order  *)
(* with pairwise different keys, because the code iterates and sorts       *)
(* dicts and the order decides the outcome of the textual replacement.     *)
(***************************************************************************)
EXTENDS Integers, Sequences, FiniteSets, TLC

VARIABLES
    mappings,          \* SymbolMapper.mappings: dict token -> glyph
    reverse_mappings,  \* SymbolMapper.reverse_mappings: dict glyph -> token
    used_symbols,      \* SymbolMapper.used_symbols: set of glyphs
    ncalls,            \* number of create_*_mapping calls made so far
    last,              \* what the last create_*_mapping call was given and did
    xl,                \* the last translate_expression / reverse_translate
    prob,              \* the Problem a prompt is built for
    prompt,            \* the last prompt built: its arguments and its legend
    problems,          \* evaluate_problems: the problems argument
    prompts,           \* evaluate_problems: the prompts argument
    pc,                \* evaluate_problems: where the call stands
    idx,               \* evaluate_problems: the loop index i
    results,           \* evaluate_problems: the results list
    outcomes,          \* what the remote endpoint did on each call, in call order
    events,            \* the remote calls begun and ended and the delays, in order
    verbose,           \* evaluate_problems: the verbose argument
    stdout,            \* the encoding of sys.stdout, which print writes to
    rngstream,         \* random: what the generator gave, by its state and the request
    run,               \* two runs of a seeded instance, each in its interpreter
    generated,         \* the last ProblemGenerator call: its arguments and its outcome
    cycle,             \* the last evaluate cycle: its arguments and its outcome
    answered,          \* the last extract_answer / check_answer call
    summary,           \* the last summarize_results call
    config,            \* the API-key store: environment, config file, last call
    loaded,            \* the last DatasetConverter call: its arguments and its outcome
    client,            \* the last OpenRouterClient call: its arguments and its outcome
    facade             \* the last calls of the package's functions: problem and prompt

mapperVars == <<mappings, reverse_mappings, used_symbols, ncalls, last, xl>>
promptVars == <<prob, prompt>>
evalVars == <<problems, prompts, pc, idx, results, outcomes, events, verbose, stdout>>
seedVars == <<rngstream, run>>
lateVars == <<loaded, client, facade>>
restVars == <<seedVars, generated, cycle, answered, summary, config, lateVars>>
coreVars == <<mapperVars, promptVars, evalVars>>
vars == <<coreVars, restVars>>

\* Python's Optional: None is the empty sequence, a value x is Some(x)
None == <<>>
Some(x) == <<x>>

----------------------------------------------------------------------------
(* Bounds of the model.                                                    *)

\* create_*_mapping calls made on one mapper
MaxCalls == 2
\* mapped tokens concatenated into one expression
MaxExprLen == 2
\* (problem, prompt) pairs given to one evaluate_problems call
MaxPairs == 3
\* the largest num_examples a prompt is asked for
MaxExamples == 3

----------------------------------------------------------------------------
(* Python values: str(), dicts in insertion order, str.replace, sorted.    *)

Digits == <<"0", "1", "2", "3", "4", "5", "6", "7", "8", "9">>

\* str(n) of a non-negative int, as a sequence of characters
RECURSIVE Str(_)
Str(n) == IF n < 10 THEN <<Digits[n + 1]>>
          ELSE Str(n \div 10) \o <<Digits[(n % 10) + 1]>>

Keys(d) == {d[i][1] : i \in DOMAIN d}
Values(d) == {d[i][2] : i \in DOMAIN d}
HasKey(d, k) == k \in Keys(d)
\* d[k] of a dict that has the key
Get(d, k) == d[CHOOSE i \in DOMAIN d : d[i][1] = k][2]
\* d[k] = v: an existing key keeps its position, a new key is appended
DictSet(d, k, v) ==
    IF HasKey(d, k)
    THEN [i \in DOMAIN d |-> IF d[i][1] = k THEN <<k, v>> ELSE d[i]]
    ELSE Append(d, <<k, v>>)

IsPrefix(p, s) == Len(p) <= Len(s) /\ SubSeq(s, 1, Len(p)) = p

\* s.replace(old, new) for a non-empty old: leftmost non-overlapping occurrences
RECURSIVE Replace(_, _, _)
Replace(s, old, new) ==
    IF Len(s) < Len(old) THEN s
    ELSE IF IsPrefix(old, s)
         THEN new \o Replace(SubSeq(s, Len(old) + 1, Len(s)), old, new)
         ELSE <<Head(s)>> \o Replace(Tail(s), old, new)

MaxKeyLen(d) == IF d = <<>> THEN 0
                ELSE CHOOSE n \in {Len(d[i][1]) : i \in DOMAIN d} :
                        \A i \in DOMAIN d : Len(d[i][1]) <= n

KeyLenIs(n, item) == Len(item[1]) = n

\* the items whose key has length 1..n (no key is empty), longest keys first, items with
\* keys of one length in dict order (sorted is stable, also with reverse=True)
RECURSIVE SortedFrom(_, _)
SortedFrom(d, n) ==
    IF n = 0 THEN <<>>
    ELSE SelectSeq(d, LAMBDA item : KeyLenIs(n, item)) \o SortedFrom(d, n - 1)

\* d.items() as they are, in dict order
ItemsInDictOrder(d) == d

\* sorted(d.items(), key=lambda x: len(x[0]), reverse=True)
SortedByKeyLenDesc(d) == SortedFrom(d, MaxKeyLen(d))

----------------------------------------------------------------------------
(* SymbolMapper (generator/symbol_mapper.py).                              *)

\* The default pools, cut to their first glyphs; as in the source, the number
\* pool and the operator pool share a glyph (U+2295, "oplus").
UNICODE_NUMBERS == << <<"therefore">>, <<"because">>, <<"oplus">> >>
UNICODE_OPERATORS == << <<"oplus">>, <<"ominus">> >>
UNICODE_RELATIONS == << <<"delta_eq">> >>
UNICODE_VARIABLES == << <<"alpha">> >>

\* Inputs of the create_*_mapping calls: the token lists (a list may name a
\* token twice, and a later call may name a token again) ...
NumberLists == {<<1, 0>>, <<10>>, <<1, 1>>}
OperatorLists == {<< <<"+">> >>, << <<"+">>, <<"-">> >>}
RelationLists == {<< <<"=">> >>}
VariableLists == {<< <<"x">> >>, << <<"therefore">> >>}
\* ... and the symbol_pool argument: None, a pool that lists one glyph twice,
\* or a pool whose glyphs are digits
CallerPools == { << <<"P">>, <<"P">> >>,
                 << <<"0">>, <<"1">> >> }
SymbolPools == {None} \cup {Some(p) : p \in CallerPools}

\* random.sample(population, k): k entries at pairwise different positions
Sample(population, k) ==
    {[i \in 1..k |-> population[f[i]]] :
        f \in {g \in [1..k -> DOMAIN population] :
                  \A i, j \in 1..k : i # j => g[i] # g[j]}}

\* for t, sym in zip(tokens, selected): d[t] = sym
RECURSIVE AssignForward(_, _, _)
AssignForward(d, tokens, selected) ==
    IF tokens = <<>> \/ selected = <<>> THEN d
    ELSE AssignForward(DictSet(d, Head(tokens), Head(selected)),
                       Tail(tokens), Tail(selected))

\* for t, sym in zip(tokens, selected): d[sym] = t
RECURSIVE AssignReverse(_, _, _)
AssignReverse(d, tokens, selected) ==
    IF tokens = <<>> \/ selected = <<>> THEN d
    ELSE AssignReverse(DictSet(d, Head(selected), Head(tokens)),
                       Tail(tokens), Tail(selected))

Range(s) == {s[i] : i \in DOMAIN s}

\* avail = [s for s in symbol_pool if s not in self.used_symbols]
Available(symbol_pool, used) == SelectSeq(symbol_pool, LAMBDA s : s \notin used)

\* if len(avail) < len(tokens): raise ValueError
NotEnough(avail, tokens) == Len(avail) < Len(tokens)

\* the mapper as a value
Mapper == [mappings |-> mappings, reverse_mappings |-> reverse_mappings,
           used_symbols |-> used_symbols]

\* the loop of a create_*_mapping call that did not raise
Created(m, tokens, selected) ==
    [mappings |-> AssignForward(m.mappings, tokens, selected),
     reverse_mappings |-> AssignReverse(m.reverse_mappings, tokens, selected),
     used_symbols |-> m.used_symbols \cup Range(selected)]

\* a call that marks the glyphs it found available as used before it raises
CreateOutcomes_marking(m, op, tokens, pool) ==
    LET avail == Available(pool, m.used_symbols)
        call(raised) == [op |-> op, tokens |-> tokens, pool |-> pool,
                         used_before |-> m.used_symbols, raised |-> raised]
    IN  IF NotEnough(avail, tokens)
        THEN {[m |-> [m EXCEPT !.used_symbols = @ \cup Range(avail)], last |-> call(TRUE)]}
        ELSE {[m |-> Created(m, tokens, selected), last |-> call(FALSE)] :
                 selected \in Sample(avail, Len(tokens))}

\* The body the four create_*_mapping methods share, on mapper m: op names
\* the method, tokens are the strings to map, pool is the pool after the
\* default is taken. Every outcome random.sample allows: the mapper after the
\* call, and what the call was given and whether it raised.
CreateOutcomes(m, op, tokens, pool) ==
    LET avail == Available(pool, m.used_symbols)
        call(raised) == [op |-> op, tokens |-> tokens, pool |-> pool,
                         used_before |-> m.used_symbols, raised |-> raised]
    IN  IF NotEnough(avail, tokens)
        THEN {[m |-> m, last |-> call(TRUE)]}
        ELSE {[m |-> Created(m, tokens, selected), last |-> call(FALSE)] :
                 selected \in Sample(avail, Len(tokens))}

\* one create_*_mapping call on this mapper
CreateMapping(op, tokens, pool) ==
    /\ ncalls < MaxCalls
    /\ xl = None
    /\ ncalls' = ncalls + 1
    /\ UNCHANGED <<xl, promptVars, evalVars, restVars>>
    /\ \E out \in CreateOutcomes(Mapper, op, tokens, pool) :
         /\ mappings' = out.m.mappings
         /\ reverse_mappings' = out.m.reverse_mappings
         /\ used_symbols' = out.m.used_symbols
         /\ last' = Some(out.last)

\* The four methods. All take symbol_pool; caller-supplied pools are drawn for
\* create_number_mapping, the other three are called with symbol_pool=None.
create_number_mapping ==
    \E numbers \in NumberLists, symbol_pool \in SymbolPools :
        CreateMapping("number", [i \in DOMAIN numbers |-> Str(numbers[i])],
                      IF symbol_pool = None THEN UNICODE_NUMBERS ELSE symbol_pool[1])

create_operator_mapping ==
    \E operators \in OperatorLists, symbol_pool \in {None} :
        CreateMapping("operator", operators,
                      IF symbol_pool = None THEN UNICODE_OPERATORS ELSE symbol_pool[1])

create_relation_mapping ==
    \E relations \in RelationLists, symbol_pool \in {None} :
        CreateMapping("relation", relations,
                      IF symbol_pool = None THEN UNICODE_RELATIONS ELSE symbol_pool[1])

create_variable_mapping ==
    \E variables \in VariableLists, symbol_pool \in {None} :
        CreateMapping("variable", variables,
                      IF symbol_pool = None THEN UNICODE_VARIABLES ELSE symbol_pool[1])

\* The mapping_dict argument of from_mapping: glyphs of the default pools, one
\* glyph given to two tokens, a glyph of no pool.
MappingDicts ==
    { << << <<"+">>, <<"ominus">> >> >>,
      << << <<"1">>, <<"therefore">> >>, << <<"0">>, <<"therefore">> >> >>,
      << << <<"7">>, <<"Q">> >> >> }

\* the mapper SymbolMapper.from_mapping(mapping_dict) returns:
\* mappings = mapping_dict.copy(), reverse_mappings = {v: k for k, v in
\* mapping_dict.items()}, used_symbols = set(mapping_dict.values())
FromMapping(mapping_dict) ==
    [mappings |-> mapping_dict,
     reverse_mappings |-> AssignReverse(<<>>,
                              [i \in DOMAIN mapping_dict |-> mapping_dict[i][1]],
                              [i \in DOMAIN mapping_dict |-> mapping_dict[i][2]]),
     used_symbols |-> Values(mapping_dict)]

\* mapper = SymbolMapper.from_mapping(mapping_dict), in place of SymbolMapper()
from_mapping ==
    /\ ncalls = 0
    /\ last = None
    /\ xl = None
    /\ mappings = <<>>
    /\ prompt = None
    /\ \E mapping_dict \in MappingDicts :
         /\ mappings' = FromMapping(mapping_dict).mappings
         /\ reverse_mappings' = FromMapping(mapping_dict).reverse_mappings
         /\ used_symbols' = FromMapping(mapping_dict).used_symbols
    /\ UNCHANGED <<ncalls, last, xl, promptVars, evalVars, restVars>>

\* for standard, novel in sorted_mappings: result = result.replace(standard, novel)
RECURSIVE ReplaceAll(_, _)
ReplaceAll(result, sorted_mappings) ==
    IF sorted_mappings = <<>> THEN result
    ELSE ReplaceAll(Replace(result, Head(sorted_mappings)[1], Head(sorted_mappings)[2]),
                    Tail(sorted_mappings))

TranslateWith(d, expression) == ReplaceAll(expression, SortedByKeyLenDesc(d))

translate_expression(expression) == TranslateWith(mappings, expression)

\* reverse_translate sweeping the forward table (a copy of translate_expression)
reverse_translate_forward_table(expression) == TranslateWith(mappings, expression)

reverse_translate(expression) == TranslateWith(reverse_mappings, expression)

\* the expressions built from 1..MaxExprLen mapped tokens
RECURSIVE Concat(_)
Concat(ss) == IF ss = <<>> THEN <<>> ELSE Head(ss) \o Concat(Tail(ss))

Expressions == {Concat(ts) : ts \in UNION {[1..n -> Keys(mappings)] : n \in 1..MaxExprLen}}

TranslateExpression ==
    /\ xl = None
    /\ \E expression \in Expressions :
         xl' = Some([expr |-> expression,
                     novel |-> translate_expression(expression),
                     back |-> None])
    /\ UNCHANGED <<mappings, reverse_mappings, used_symbols, ncalls, last, promptVars, evalVars, restVars>>

ReverseTranslate ==
    /\ xl # None
    /\ xl[1].back = None
    /\ xl' = Some([xl[1] EXCEPT !.back = Some(reverse_translate(xl[1].novel))])
    /\ UNCHANGED <<mappings, reverse_mappings, used_symbols, ncalls, last, promptVars, evalVars, restVars>>

\* SymbolMapper.__init__
NewMapper ==
    /\ mappings = <<>>
    /\ reverse_mappings = <<>>
    /\ used_symbols = {}
    /\ ncalls = 0
    /\ last = None
    /\ xl = None

\* no evaluate_problems call is running
NoEvaluation ==
    /\ problems = <<>>
    /\ prompts = <<>>
    /\ pc = "idle"
    /\ idx = 0
    /\ results = <<>>
    /\ outcomes = <<>>
    /\ events = <<>>
    /\ verbose = FALSE
    /\ stdout = "utf-8"

\* nothing but the mapper, the prompt builder and evaluate_problems is in use
NoSeed == rngstream = {} /\ run = None
NoGenerated == generated = None
NoCycle == cycle = None
NoAnswer == answered = None
NoSummary == summary = None
NoConfig == config = None
NoLoaded == loaded = None
NoClient == client = None
NoFacade == facade = None
NoLate == NoLoaded /\ NoClient /\ NoFacade
NoRest == NoSeed /\ NoGenerated /\ NoCycle /\ NoAnswer /\ NoSummary /\ NoConfig /\ NoLate

\* no prompt is being built
NoPrompt ==
    /\ prob = None
    /\ prompt = None

InitMapper == NewMapper /\ NoPrompt /\ NoEvaluation /\ NoRest

NextMapper ==
    \/ create_number_mapping
    \/ create_operator_mapping
    \/ create_relation_mapping
    \/ create_variable_mapping
    \/ TranslateExpression
    \/ ReverseTranslate

SpecMapper == InitMapper /\ [][NextMapper]_vars

----------------------------------------------------------------------------
(* The mapper and the legend of a prompt: create_complete_mapping          *)
(* (generator/symbol_mapper.py), the templates' translation of a question  *)
(* (generator/problem_templates.py), build_example_section                 *)
(* (symboval/generator/prompt_builder.py) as generate_prompt and the       *)
(* PromptBuilder variants call it (symboval/__init__.py).                  *)

\* The arguments of create_complete_mapping; an empty list is skipped like None.
CompleteNumbers == {<<>>, <<1, 0>>, <<1, 0, 10>>}
CompleteOperators == {<<>>, << <<"+">> >>, << <<"+">>, <<"-">> >>}
CompleteRelations == {<<>>, << <<"=">> >>}
CompleteVariables == {<<>>, << <<"x">> >>}

\* the create_*_mapping calls create_complete_mapping makes, in its order
CompleteSteps(numbers, operators, relations, variables) ==
    SelectSeq(<< [op |-> "number", tokens |-> [i \in DOMAIN numbers |-> Str(numbers[i])],
                  pool |-> UNICODE_NUMBERS],
                 [op |-> "operator", tokens |-> operators, pool |-> UNICODE_OPERATORS],
                 [op |-> "relation", tokens |-> relations, pool |-> UNICODE_RELATIONS],
                 [op |-> "variable", tokens |-> variables, pool |-> UNICODE_VARIABLES] >>,
              LAMBDA step : step.tokens # <<>>)

\* the calls made one after the other from mapper m; a call that raises ends
\* create_complete_mapping and leaves the mapper as the calls before it made
\* it, and the calls after it (notmade of them) are not made
RECURSIVE CompleteOutcomes(_, _, _)
CompleteOutcomes(m, steps, lastCall) ==
    IF steps = <<>> THEN {[m |-> m, last |-> lastCall, notmade |-> 0]}
    ELSE UNION { IF out.last.raised
                 THEN {[m |-> out.m, last |-> Some(out.last),
                        notmade |-> Len(Tail(steps))]}
                 ELSE CompleteOutcomes(out.m, Tail(steps), Some(out.last)) :
                    out \in CreateOutcomes(m, Head(steps).op, Head(steps).tokens,
                                           Head(steps).pool) }

\* create_complete_mapping on a new mapper
create_complete_mapping ==
    /\ ncalls = 0
    /\ \E numbers \in CompleteNumbers, operators \in CompleteOperators,
          relations \in CompleteRelations, variables \in CompleteVariables :
         LET steps == CompleteSteps(numbers, operators, relations, variables) IN
         /\ steps # <<>>
         /\ \E out \in CompleteOutcomes(Mapper, steps, None) :
              /\ ncalls' = Len(steps) - out.notmade
              /\ mappings' = out.m.mappings
              /\ reverse_mappings' = out.m.reverse_mappings
              /\ used_symbols' = out.m.used_symbols
              /\ last' = out.last
    /\ UNCHANGED <<xl, promptVars, evalVars, restVars>>

\* the create_*_mapping calls and create_complete_mapping on one mapper
NextCreate ==
    \/ create_number_mapping
    \/ create_operator_mapping
    \/ create_relation_mapping
    \/ create_variable_mapping
    \/ create_complete_mapping

SpecCreate == InitMapper /\ [][NextCreate]_vars

\* The standard-notation questions a template writes.
StandardQuestions ==
    { <<"1", "+", "0">>, <<"1", "0", "=", "x">>, <<"1", "1">>, <<"?">> }

\* a template's generate(symbol_mapper): the question and its translation
GenerateProblem ==
    /\ last # None
    /\ ~last[1].raised
    /\ prob = None
    /\ \E std_q \in StandardQuestions :
         prob' = Some([standard_notation |-> std_q,
                       novel_notation |-> translate_expression(std_q)])
    /\ UNCHANGED <<mapperVars, prompt, evalVars, restVars>>

\* _extract_symbols_from_expression of a builder on mapper m: the characters
\* of the expression that are keys of the reverse table
ExtractSymbols(m, expression) ==
    {<<expression[i]>> : i \in DOMAIN expression} \cap Keys(m.reverse_mappings)

\* the orders in which a set can be iterated
Orders(S) == {f \in [1..Cardinality(S) -> S] : \A i, j \in DOMAIN f : i # j => f[i] # f[j]}

\* _get_mappings_for_symbols(symbols), symbols iterated in the order given;
\* a symbol that is no key of the reverse table is passed over
MappingsForSymbols(m, symbols) ==
    LET known == SelectSeq(symbols, LAMBDA symbol : HasKey(m.reverse_mappings, symbol))
    IN  [i \in DOMAIN known |-> <<Get(m.reverse_mappings, known[i]), known[i]>>]

\* get_mapping_examples(num_examples): every list it can return
get_mapping_examples(m, num_examples) ==
    IF Len(m.mappings) <= num_examples THEN {m.mappings}
    ELSE Sample(m.mappings, num_examples)

Min2(a, b) == IF a < b THEN a ELSE b

\* the required mappings kept when the legend is cut to num_examples entries
RequiredMappings_truncated(m, symbols, num_examples) ==
    SubSeq(MappingsForSymbols(m, symbols), 1,
           Min2(num_examples, Len(MappingsForSymbols(m, symbols))))

\* required_mappings of build_example_section: all of them, whatever
\* num_examples is
RequiredMappings(m, symbols, num_examples) ==
    MappingsForSymbols(m, symbols)

\* the list exs of build_example_section for num_examples # 0: every list
\* the set order and random.sample allow
ExampleLists(m, num_examples, required_symbols) ==
    IF required_symbols # {}
    THEN UNION { LET required_mappings == RequiredMappings(m, order, num_examples)
                     remaining == num_examples - Len(required_mappings)
                     available == SelectSeq(m.mappings,
                                     LAMBDA e : e \notin Range(required_mappings))
                 IN  IF remaining > 0 /\ available # <<>>
                     THEN {required_mappings \o additional :
                              additional \in Sample(available,
                                                Min2(remaining, Len(available)))}
                     ELSE {required_mappings} :
                    order \in Orders(required_symbols) }
    ELSE get_mapping_examples(m, num_examples)

\* std.isdigit()
IsDigitString(std) == std # <<>> /\ \A i \in DOMAIN std : std[i] \in Range(Digits)

\* what a legend line says the glyph represents
Meaning(std) ==
    IF IsDigitString(std) THEN std
    ELSE IF std = <<"+">> THEN <<"plus">>
    ELSE IF std = <<"-">> THEN <<"minus">>
    ELSE IF std = <<"*">> THEN <<"times">>
    ELSE IF std = <<"/">> THEN <<"divided by">>
    ELSE IF std = <<"=">> THEN <<"equals">>
    ELSE std

\* f"  {nov} represents {meaning}\n" for every entry of exs
RECURSIVE LegendLines(_)
LegendLines(exs) ==
    IF exs = <<>> THEN <<>>
    ELSE <<"  ">> \o Head(exs)[2] \o <<" represents ">> \o Meaning(Head(exs)[1])
            \o <<"\n">> \o LegendLines(Tail(exs))

\* the text build_example_section returns for the list exs
ExampleSection(exs) ==
    <<"You will be given mathematical problems using a novel notation system. ",
      "Here are the basic symbol mappings:\n\n">>
        \o LegendLines(exs)
        \o <<"\nUsing these mappings, solve the following problems.\n">>

NoExamplesSection ==
    <<"You will solve mathematical problems using novel notation. No examples are provided.\n">>

\* build_example_section(num_examples, required_symbols=required_symbols) of
\* a builder on mapper m: every text it can return
build_example_section(m, num_examples, required_symbols) ==
    IF num_examples = 0 THEN {NoExamplesSection}
    ELSE {ExampleSection(exs) : exs \in ExampleLists(m, num_examples, required_symbols)}

\* The arguments generate_prompt gives create_complete_mapping: fixed lists of
\* numbers, operators and relations, no variables.
PromptMapperSteps == CompleteSteps(<<1, 0>>, << <<"+">> >>, << <<"=">> >>, <<>>)

\* the mappers generate_prompt can build for itself
PromptMappers ==
    {out.m : out \in {o \in CompleteOutcomes([mappings |-> <<>>, reverse_mappings |-> <<>>,
                                              used_symbols |-> {}],
                                             PromptMapperSteps, None) :
                         ~o.last[1].raised}}

\* what is kept of a built prompt: how it was asked for, the reverse table of
\* the builder's mapper, and its example section (None if it has none)
Built(variant, m, num_examples, use_novel_notation, section) ==
    Some([variant |-> variant, num_examples |-> num_examples,
          use_novel_notation |-> use_novel_notation,
          reverse_mappings |-> m.reverse_mappings, legend |-> section])

\* generate_prompt(problem, num_examples, use_novel_notation): a mapper of
\* its own, the symbols of the notation shown, the example section
generate_prompt ==
    /\ prob # None
    /\ prompt = None
    /\ \E num_examples \in 0..MaxExamples, use_novel_notation \in BOOLEAN,
          m \in PromptMappers :
         LET notation == IF use_novel_notation THEN prob[1].novel_notation
                         ELSE prob[1].standard_notation
             required_symbols == ExtractSymbols(m, notation)
         IN  \E section \in build_example_section(m, num_examples, required_symbols) :
                prompt' = Built("generate_prompt", m, num_examples,
                                use_novel_notation, Some(section))
    /\ UNCHANGED <<mapperVars, prob, evalVars, restVars>>

\* PromptBuilder(mapper).build_comparative_prompt(problem, num_examples): the
\* novel prompt of the pair
build_comparative_prompt ==
    /\ prob # None
    /\ prompt = None
    /\ \E num_examples \in 0..MaxExamples :
         LET problem_symbols == ExtractSymbols(Mapper, prob[1].novel_notation) IN
         \E section \in build_example_section(Mapper, num_examples, problem_symbols) :
            prompt' = Built("comparative", Mapper, num_examples, TRUE, Some(section))
    /\ UNCHANGED <<mapperVars, prob, evalVars, restVars>>

\* PromptBuilder(mapper).build_few_shot_learning_sequence(problem, counts):
\* the prompt it makes for one of the counts; count 0 is the zero-shot prompt,
\* which has no example section
build_few_shot_learning_sequence ==
    /\ prob # None
    /\ prompt = None
    /\ \E count \in 0..MaxExamples :
         LET problem_symbols == ExtractSymbols(Mapper, prob[1].novel_notation) IN
         IF count = 0
         THEN prompt' = Built("few_shot", Mapper, count, TRUE, None)
         ELSE \E section \in build_example_section(Mapper, count, problem_symbols) :
                 prompt' = Built("few_shot", Mapper, count, TRUE, Some(section))
    /\ UNCHANGED <<mapperVars, prob, evalVars, restVars>>

InitPrompt == NewMapper /\ NoPrompt /\ NoEvaluation /\ NoRest

NextPrompt ==
    \/ create_complete_mapping
    \/ GenerateProblem
    \/ generate_prompt
    \/ build_comparative_prompt
    \/ build_few_shot_learning_sequence

SpecPrompt == InitPrompt /\ [][NextPrompt]_vars

\* what is kept of a direct build_example_section call: its arguments, the
\* two tables of the builder's mapper, and the text returned
BuiltSection(m, num_examples, required_symbols, section) ==
    Some([variant |-> "build_example_section", num_examples |-> num_examples,
          use_novel_notation |-> TRUE, required_symbols |-> required_symbols,
          mappings |-> m.mappings, reverse_mappings |-> m.reverse_mappings,
          legend |-> Some(section)])

\* the required_symbols argument for mapper m: glyphs of its reverse table,
\* or a glyph it does not know
RequiredSymbolSets(m) == SUBSET Keys(m.reverse_mappings) \cup {{<<"Z">>}}

\* PromptBuilder(mapper).build_example_section(num_examples,
\* required_symbols=required_symbols)
BuildExampleSection ==
    /\ prompt = None
    /\ \E num_examples \in 0..MaxExamples, required_symbols \in RequiredSymbolSets(Mapper) :
         \E section \in build_example_section(Mapper, num_examples, required_symbols) :
            prompt' = BuiltSection(Mapper, num_examples, required_symbols, section)
    /\ UNCHANGED <<mapperVars, prob, evalVars, restVars>>

\* a mapper filled by create_number_mapping and create_operator_mapping
\* calls, or made by from_mapping, and a legend built from it
NextLegend ==
    \/ from_mapping
    \/ create_number_mapping
    \/ create_operator_mapping
    \/ BuildExampleSection

SpecLegend == InitPrompt /\ [][NextLegend]_vars

----------------------------------------------------------------------------
(* The problem templates and ProblemGenerator                              *)
(* (generator/problem_templates.py).                                       *)

\* str(n) of an int
StrInt(n) == IF n < 0 THEN <<"-">> \o Str(0 - n) ELSE Str(n)

\* a // b for b > 0
FloorDiv(a, b) == IF a >= 0 THEN a \div b ELSE 0 - ((b - 1 - a) \div b)

\* MathematicalPrinciple, in the order of the enum
Principles ==
    <<"commutativity", "associativity", "distributivity", "identity", "inverse",
      "transitivity", "basic_arithmetic", "multi_step">>

\* ProblemDifficulty
Difficulties == {"easy", "medium", "hard"}

\* the keys of TEMPLATE_MAP, in dict order
TEMPLATE_MAP ==
    <<"commutativity", "associativity", "distributivity", "basic_arithmetic",
      "multi_step", "identity">>

\* What a template draws is given by a draw: which of the values
\* random.randint(lo, hi) may take are taken (ints), and which of the elements
\* random.choice(seq) may take (choices). Both ends of a range, any element of
\* a list:
RandIntEnds(lo, hi) == {lo, hi}
ChoiceAny(seq) == {seq[i] : i \in DOMAIN seq}
\* the low end, the first element:
RandIntLow(lo, hi) == {lo}
ChoiceFirst(seq) == {seq[1]}
\* the high end, the last element:
RandIntHigh(lo, hi) == {hi}
ChoiceLast(seq) == {seq[Len(seq)]}

EndsAny == [ints |-> "ends", choices |-> "any"]
LowAny == [ints |-> "low", choices |-> "any"]
LowFirst == [ints |-> "low", choices |-> "first"]
HighLast == [ints |-> "high", choices |-> "last"]

\* random.randint(lo, hi) under a draw
RandInt(draw, lo, hi) ==
    CASE draw.ints = "low" -> RandIntLow(lo, hi)
      [] draw.ints = "high" -> RandIntHigh(lo, hi)
      [] OTHER -> RandIntEnds(lo, hi)

\* random.choice(seq) under a draw
Choice(draw, seq) ==
    CASE draw.choices = "first" -> ChoiceFirst(seq)
      [] draw.choices = "last" -> ChoiceLast(seq)
      [] OTHER -> ChoiceAny(seq)

\* novel_q = symbol_mapper.translate_expression(std_q) if symbol_mapper else std_q
Novel(symbol_mapper, std) ==
    IF symbol_mapper = None THEN std ELSE TranslateWith(symbol_mapper[1].mappings, std)

\* the Problem a template returns
MakeProblem(principle, difficulty, requires_reasoning, std_q, answer, symbol_mapper, metadata) ==
    [question |-> std_q, answer |-> StrInt(answer), principle |-> principle,
     difficulty |-> difficulty, requires_reasoning |-> requires_reasoning,
     standard_notation |-> std_q, novel_notation |-> Novel(symbol_mapper, std_q),
     metadata |-> metadata]

\* f" {operator} "
Spaced(operator) == <<" ", operator, " ">>

QuestionMark == <<" ", "=", " ", "?">>

CommutativityTemplate(difficulty, symbol_mapper, draw) ==
    LET operands == IF difficulty = "easy" THEN RandInt(draw, 1, 10)
                    ELSE IF difficulty = "medium" THEN RandInt(draw, 10, 50)
                    ELSE RandInt(draw, 50, 200)
    IN  {MakeProblem("commutativity", difficulty, TRUE,
                     <<"I", "f", " ">> \o Str(a) \o Spaced(op) \o Str(b)
                        \o <<" ", "=", " ", "C", ",", " ", "t", "h", "e", "n", " ">>
                        \o Str(b) \o Spaced(op) \o Str(a) \o QuestionMark,
                     IF op = "+" THEN a + b ELSE a * b,
                     symbol_mapper, [a |-> a, b |-> b, operator |-> op]) :
            a \in operands, b \in operands, op \in Choice(draw, <<"+", "*">>)}

AssociativityTemplate(difficulty, symbol_mapper, draw) ==
    LET operands == IF difficulty = "easy" THEN RandInt(draw, 1, 10)
                    ELSE IF difficulty = "medium" THEN RandInt(draw, 10, 30)
                    ELSE RandInt(draw, 30, 100)
    IN  {MakeProblem("associativity", difficulty, TRUE,
                     <<"(">> \o Str(a) \o Spaced(operator) \o Str(b) \o <<")">>
                        \o Spaced(operator) \o Str(c) \o QuestionMark,
                     IF operator = "+" THEN a + b + c ELSE a * b * c,
                     symbol_mapper, [a |-> a, b |-> b, c |-> c, operator |-> operator]) :
            a \in operands, b \in operands, c \in operands,
            operator \in Choice(draw, <<"+", "*">>)}

DistributivityTemplate(difficulty, symbol_mapper, draw) ==
    LET factors == IF difficulty = "easy" THEN RandInt(draw, 2, 5)
                   ELSE IF difficulty = "medium" THEN RandInt(draw, 2, 10)
                   ELSE RandInt(draw, 5, 20)
        terms == IF difficulty = "easy" THEN RandInt(draw, 1, 10)
                 ELSE IF difficulty = "medium" THEN RandInt(draw, 5, 20)
                 ELSE RandInt(draw, 10, 50)
    IN  {MakeProblem("distributivity", difficulty, TRUE,
                     Str(a) \o <<" ", "*", " ", "(">> \o Str(b) \o Spaced("+")
                        \o Str(c) \o <<")">> \o QuestionMark,
                     a * (b + c),
                     symbol_mapper, [a |-> a, b |-> b, c |-> c]) :
            a \in factors, b \in terms, c \in terms}

\* a dividend that is the sum of the divisor and the drawn value
EasyDividend_sum(b, k) == b + k

\* a = b * random.randint(1, 10)
EasyDividend(b, k) == b * k

BasicArithmeticTemplate(difficulty, symbol_mapper, draw) ==
    LET operands == IF difficulty = "easy" THEN RandInt(draw, 1, 20)
                    ELSE IF difficulty = "medium" THEN RandInt(draw, 10, 100)
                    ELSE RandInt(draw, 50, 500)
        problem(a, operator, b, answer) ==
            MakeProblem("basic_arithmetic", difficulty, FALSE,
                        Str(a) \o Spaced(operator) \o Str(b) \o QuestionMark,
                        answer, symbol_mapper, [a |-> a, b |-> b, operator |-> operator])
    IN  UNION { IF operator = "+" THEN {problem(a, operator, b, a + b)}
                ELSE IF operator = "-" THEN {problem(a, operator, b, a - b)}
                ELSE IF operator = "*" THEN {problem(a, operator, b, a * b)}
                ELSE IF difficulty = "easy"
                     THEN {problem(EasyDividend(b2, k), operator, b2,
                                   FloorDiv(EasyDividend(b2, k), b2)) :
                              b2 \in RandInt(draw, 1, 10), k \in RandInt(draw, 1, 10)}
                     ELSE {problem(a, operator, b, FloorDiv(a, b))} :
                  a \in operands, b \in operands,
                  operator \in Choice(draw, <<"+", "-", "*", "/">>) }

\* the expression text and the running result of MultiStepTemplate after the
\* first i operators
RECURSIVE MultiStepExpression(_, _, _)
MultiStepExpression(numbers, operators, i) ==
    IF i = 0 THEN Str(numbers[1])
    ELSE MultiStepExpression(numbers, operators, i - 1)
            \o Spaced(operators[i]) \o Str(numbers[i + 1])

\* the expression evaluated from the right: the value of its last i operators
\* applied to its last i + 1 numbers
RECURSIVE MultiStepResult_rightToLeft(_, _, _)
MultiStepResult_rightToLeft(numbers, operators, i) ==
    LET first == Len(operators) - i + 1 IN
    IF i = 0 THEN numbers[Len(numbers)]
    ELSE LET rest == MultiStepResult_rightToLeft(numbers, operators, i - 1) IN
         IF operators[first] = "+" THEN numbers[first] + rest
         ELSE IF operators[first] = "-" THEN numbers[first] - rest
         ELSE numbers[first] * rest

RECURSIVE MultiStepResult(_, _, _)
MultiStepResult(numbers, operators, i) ==
    IF i = 0 THEN numbers[1]
    ELSE LET result == MultiStepResult(numbers, operators, i - 1) IN
         IF operators[i] = "+" THEN result + numbers[i + 1]
         ELSE IF operators[i] = "-" THEN result - numbers[i + 1]
         ELSE result * numbers[i + 1]

MultiStepTemplate(difficulty, symbol_mapper, draw) ==
    LET num_ops == IF difficulty = "medium" THEN 2 ELSE 3
        values == IF difficulty = "medium" THEN RandInt(draw, 1, 20) ELSE RandInt(draw, 5, 50)
    IN  {MakeProblem("multi_step", difficulty, TRUE,
                     MultiStepExpression(numbers, operators, num_ops) \o QuestionMark,
                     MultiStepResult(numbers, operators, num_ops),
                     symbol_mapper, [numbers |-> numbers, operators |-> operators]) :
            numbers \in [1..(num_ops + 1) -> values],
            operators \in [1..num_ops -> Choice(draw, <<"+", "-", "*">>)]}

IdentityTemplate(difficulty, symbol_mapper, draw) ==
    {LET operator == IF identity_type = "additive" THEN "+" ELSE "*"
         identity == IF identity_type = "additive" THEN 0 ELSE 1
     IN  MakeProblem("identity", difficulty, TRUE,
                     IF a_first
                     THEN Str(a) \o Spaced(operator) \o Str(identity) \o QuestionMark
                     ELSE Str(identity) \o Spaced(operator) \o Str(a) \o QuestionMark,
                     a, symbol_mapper, [a |-> a, identity_type |-> identity_type]) :
        a \in RandInt(draw, 1, 100), identity_type \in Choice(draw, <<"additive", "multiplicative">>),
        a_first \in Choice(draw, <<TRUE, FALSE>>)}

\* str(principle) of a MathematicalPrinciple
PrincipleName(principle) ==
    CASE principle = "commutativity" -> "MathematicalPrinciple.COMMUTATIVITY"
      [] principle = "associativity" -> "MathematicalPrinciple.ASSOCIATIVITY"
      [] principle = "distributivity" -> "MathematicalPrinciple.DISTRIBUTIVITY"
      [] principle = "identity" -> "MathematicalPrinciple.IDENTITY"
      [] principle = "inverse" -> "MathematicalPrinciple.INVERSE"
      [] principle = "transitivity" -> "MathematicalPrinciple.TRANSITIVITY"
      [] principle = "basic_arithmetic" -> "MathematicalPrinciple.BASIC_ARITHMETIC"
      [] principle = "multi_step" -> "MathematicalPrinciple.MULTI_STEP"

\* a lookup that finds a template for every principle
RegisteredAlways(principle) == TRUE

\* template_class = self.TEMPLATE_MAP.get(principle)
Registered(principle) == \E i \in DOMAIN TEMPLATE_MAP : TEMPLATE_MAP[i] = principle

\* the error of generate_problem
NoTemplateError(principle) ==
    [error |-> "ValueError",
     message |-> <<"No template found for principle: ", PrincipleName(principle)>>]

\* template_class(difficulty=difficulty).generate(symbol_mapper=symbol_mapper):
\* every Problem the template can return
Generate(principle, difficulty, symbol_mapper, draw) ==
    IF principle = "commutativity"
        THEN CommutativityTemplate(difficulty, symbol_mapper, draw)
    ELSE IF principle = "associativity"
        THEN AssociativityTemplate(difficulty, symbol_mapper, draw)
    ELSE IF principle = "distributivity"
        THEN DistributivityTemplate(difficulty, symbol_mapper, draw)
    ELSE IF principle = "basic_arithmetic"
        THEN BasicArithmeticTemplate(difficulty, symbol_mapper, draw)
    ELSE IF principle = "multi_step"
        THEN MultiStepTemplate(difficulty, symbol_mapper, draw)
    ELSE IdentityTemplate(difficulty, symbol_mapper, draw)

\* The arguments of the generator's calls.
MaxSetSize == 2
MaxPerPrinciple == 2
PrincipleLists ==
    {None, Some(<<"commutativity">>), Some(<<"identity", "inverse">>),
     Some(<<"transitivity">>)}


\* what a generator call gave: the principles it asked templates for, in
\* order, and the error it raised or the problems it returned
Raised(drawn, principle) ==
    [raised |-> TRUE, error |-> Some(NoTemplateError(principle)), drawn |-> drawn,
     problems |-> <<>>]
Returned(drawn, returned) ==
    [raised |-> FALSE, error |-> None, drawn |-> drawn, problems |-> returned]

\* generate_problem(principle, difficulty) with the template drawing as draw
\* says, after the outcome so far
GenerateOne(sofar, principle, difficulty, draw) ==
    IF sofar.raised THEN {sofar}
    ELSE IF ~Registered(principle)
         THEN {Raised(Append(sofar.drawn, principle), principle)}
         ELSE {Returned(Append(sofar.drawn, principle), Append(sofar.problems, problem)) :
                  problem \in Generate(principle, difficulty, None, draw)}

\* the loop of generate_problem_set: n problems, each of a principle chosen
\* from the list
RECURSIVE ProblemSet(_, _, _)
ProblemSet(n, principles, difficulty) ==
    IF n = 0 THEN {Returned(<<>>, <<>>)}
    ELSE UNION { UNION { GenerateOne(sofar, principle, difficulty, LowFirst)
                            \cup GenerateOne(sofar, principle, difficulty, HighLast) :
                            principle \in ChoiceAny(principles) } :
                    sofar \in ProblemSet(n - 1, principles, difficulty) }

\* the loops of generate_balanced_set: for the first i principles of
\* TEMPLATE_MAP, problems_per_principle problems each (j of them for the i-th),
\* all of them high draws or all of them low draws
RECURSIVE BalancedGroups(_, _, _, _, _)
BalancedGroups(i, j, problems_per_principle, difficulty, high) ==
    IF i = 0 THEN {Returned(<<>>, <<>>)}
    ELSE IF j = 0
         THEN BalancedGroups(i - 1, problems_per_principle, problems_per_principle,
                             difficulty, high)
         ELSE UNION { IF high
                      THEN GenerateOne(sofar, TEMPLATE_MAP[i], difficulty, HighLast)
                      ELSE GenerateOne(sofar, TEMPLATE_MAP[i], difficulty, LowFirst) :
                         sofar \in BalancedGroups(i, j - 1, problems_per_principle,
                                                  difficulty, high) }

\* seq without its last element
WithoutLast(seq) == {SubSeq(seq, 1, Len(seq) - 1)}

\* random.shuffle(problems): of the orders it can give, the rotations of the
\* list and of the reversed list
Shuffles(seq) ==
    LET n == Len(seq)
        rotated(k) == [i \in 1..n |-> seq[((i + k - 1) % n) + 1]]
        reversed(k) == [i \in 1..n |-> seq[((n - i + k) % n) + 1]]
    IN  IF n = 0 THEN {seq}
        ELSE {rotated(k) : k \in 0..(n - 1)} \cup {reversed(k) : k \in 0..(n - 1)}

\* what is kept of a generator call
Generated(call, principle, principles, n, difficulty, groups, out) ==
    Some([call |-> call, principle |-> principle, principles |-> principles, n |-> n,
          difficulty |-> difficulty, groups |-> groups, out |-> out])

\* ProblemGenerator().generate_problem(principle, difficulty)
generate_problem ==
    /\ generated = None
    /\ \E i \in DOMAIN Principles, difficulty \in Difficulties :
         \E out \in GenerateOne(Returned(<<>>, <<>>), Principles[i], difficulty,
                                EndsAny) :
            generated' = Generated("generate_problem", Principles[i], None, 1,
                                   difficulty, <<>>, out)
    /\ UNCHANGED <<coreVars, seedVars, cycle, answered, summary, config, lateVars>>

\* ProblemGenerator().generate_problem_set(num_problems, principles, difficulty)
generate_problem_set ==
    /\ generated = None
    /\ \E num_problems \in 0..MaxSetSize, principles \in PrincipleLists,
          difficulty \in Difficulties :
         \E out \in ProblemSet(num_problems,
                               IF principles = None THEN TEMPLATE_MAP ELSE principles[1],
                               difficulty) :
            generated' = Generated("generate_problem_set", "", principles, num_problems,
                                   difficulty, <<>>, out)
    /\ UNCHANGED <<coreVars, seedVars, cycle, answered, summary, config, lateVars>>

\* ProblemGenerator().generate_balanced_set(problems_per_principle, difficulty)
generate_balanced_set ==
    /\ generated = None
    /\ \E problems_per_principle \in 0..MaxPerPrinciple, difficulty \in Difficulties :
         \E high \in BOOLEAN :
         \E groups \in BalancedGroups(Len(TEMPLATE_MAP), problems_per_principle,
                                      problems_per_principle, difficulty, high) :
            \E shuffled \in Shuffles(groups.problems) :
               generated' = Generated("generate_balanced_set", "", None,
                                      problems_per_principle, difficulty, groups.problems,
                                      Returned(groups.drawn, shuffled))
    /\ UNCHANGED <<coreVars, seedVars, cycle, answered, summary, config, lateVars>>

InitGenerator ==
    /\ NewMapper /\ NoPrompt /\ NoEvaluation
    /\ NoSeed /\ NoGenerated /\ NoCycle /\ NoAnswer /\ NoSummary /\ NoConfig /\ NoLate

NextGenerator ==
    \/ generate_problem
    \/ generate_problem_set
    \/ generate_balanced_set

SpecGenerator == InitGenerator /\ [][NextGenerator]_vars

----------------------------------------------------------------------------
(* Seeding. SymbolMapper.__init__ and ProblemGenerator.__init__ call        *)
(* random.seed(seed) on the generator of the random module, and every draw  *)
(* of a mapper or a template is made from that one generator. What the      *)
(* generator gives is a function of its state and of the request; the       *)
(* function itself is left open and kept in rngstream as it is discovered.  *)

\* The seeds and the calls made on a seeded instance.
Seeds == {1, 2}
MaxSeededCalls == 2
SeededNumberLists == {<<1>>, <<0>>}
SeededPrinciples == {"commutativity", "associativity"}

\* two runs, each in an interpreter of its own
Runs == {1, 2}

\* the generator of a new interpreter: seeded by the system, differently in
\* every interpreter r
FreshGenerator(r) == [seeded |-> FALSE, seed |-> r, history |-> <<>>]

\* a constructor called with seed=None: random.seed is not called
NotSeeded(rng, seed) == rng

\* if seed is not None: random.seed(seed)
Seeded(rng, seed) == [seeded |-> TRUE, seed |-> seed, history |-> <<>>]

\* a request consumes generator state: the state after depends on the state
\* before and on the request
Advance(rng, request) == [rng EXCEPT !.history = Append(@, request)]

\* random.sample(avail, k) and a template's draws, as requests
SampleRequest(avail, k) ==
    [call |-> "sample", population |-> avail, k |-> k, principle |-> "", difficulty |-> ""]
TemplateRequest(principle, difficulty) ==
    [call |-> "generate", population |-> <<>>, k |-> 0, principle |-> principle,
     difficulty |-> difficulty]

\* what the generator gives for the request in state rng, if that is known
Given(rng, request) == {e.outcome : e \in {g \in rngstream : g.rng = rng /\ g.request = request}}

\* outcome is what the generator gives for the request in state rng
Gives(rng, request, outcome) ==
    /\ Given(rng, request) \subseteq {outcome}
    /\ rngstream' = rngstream \cup {[rng |-> rng, request |-> request, outcome |-> outcome]}

EmptyMapper == [mappings |-> <<>>, reverse_mappings |-> <<>>, used_symbols |-> {}]

\* no instance constructed yet in either run
NoInstance ==
    [r \in Runs |-> [kind |-> "", seed |-> 0, rng |-> FreshGenerator(r), calls |-> <<>>,
                     outs |-> <<>>, m |-> EmptyMapper, disturbed |-> FALSE]]

\* SymbolMapper(seed=seed) / ProblemGenerator(seed=seed) in run r; the second
\* run constructs what the first constructed, with any seed
NewSeededInstance(r) ==
    /\ run[r].kind = ""
    /\ r = 2 => run[1].kind # ""
    /\ \E kind \in {"SymbolMapper", "ProblemGenerator"}, seed \in Seeds :
         /\ r = 2 => kind = run[1].kind
         /\ run' = [run EXCEPT ![r] = [@ EXCEPT !.kind = kind, !.seed = seed,
                                                  !.rng = Seeded(@, seed)]]
    /\ UNCHANGED <<rngstream, coreVars, generated, cycle, answered, summary, config, lateVars>>

\* create_number_mapping(numbers) on the seeded mapper of run r
SeededCreateNumberMapping(r) ==
    /\ run[r].kind = "SymbolMapper"
    /\ Len(run[r].calls) < MaxSeededCalls
    /\ \E numbers \in SeededNumberLists :
         LET tokens == [i \in DOMAIN numbers |-> Str(numbers[i])]
             avail == Available(UNICODE_NUMBERS, run[r].m.used_symbols)
             call == [call |-> "create_number_mapping", tokens |-> tokens,
                      principle |-> "", difficulty |-> ""]
         IN  IF NotEnough(avail, tokens)
             THEN /\ run' = [run EXCEPT ![r].calls = Append(@, call),
                                        ![r].outs = Append(@, [raised |-> TRUE,
                                                     selected |-> <<>>, problem |-> None])]
                  /\ UNCHANGED rngstream
             ELSE \E selected \in Sample(avail, Len(tokens)) :
                  LET out == [raised |-> FALSE, selected |-> selected, problem |-> None] IN
                  /\ Gives(run[r].rng, SampleRequest(avail, Len(tokens)), out)
                  /\ run' = [run EXCEPT
                               ![r].calls = Append(@, call),
                               ![r].outs = Append(@, out),
                               ![r].m = Created(@, tokens, selected),
                               ![r].rng = Advance(@, SampleRequest(avail, Len(tokens)))]
    /\ UNCHANGED <<coreVars, generated, cycle, answered, summary, config, lateVars>>

\* generate_problem(principle, difficulty) on the seeded generator of run r;
\* of the draws of the template, those with the operands at the low end
SeededGenerateProblem(r) ==
    /\ run[r].kind = "ProblemGenerator"
    /\ Len(run[r].calls) < MaxSeededCalls
    /\ \E principle \in SeededPrinciples, difficulty \in {"easy"} :
         \E problem \in Generate(principle, difficulty, None, LowAny) :
            LET call == [call |-> "generate_problem", tokens |-> <<>>,
                         principle |-> principle, difficulty |-> difficulty]
                out == [raised |-> FALSE, selected |-> <<>>, problem |-> Some(problem)]
            IN  /\ Gives(run[r].rng, TemplateRequest(principle, difficulty), out)
                /\ run' = [run EXCEPT
                             ![r].calls = Append(@, call),
                             ![r].outs = Append(@, out),
                             ![r].rng = Advance(@, TemplateRequest(principle, difficulty))]
    /\ UNCHANGED <<coreVars, generated, cycle, answered, summary, config, lateVars>>

\* between two calls of the instance of run 2, another SymbolMapper or
\* ProblemGenerator is constructed with a seed in the same interpreter
OtherInstanceConstructed ==
    /\ run[2].kind # ""
    /\ ~run[2].disturbed
    /\ \E seed \in Seeds :
         run' = [run EXCEPT ![2].rng = Seeded(@, seed), ![2].disturbed = TRUE]
    /\ UNCHANGED <<rngstream, coreVars, generated, cycle, answered, summary, config, lateVars>>

\* between two calls of the instance of run 2, another mapper of the same
\* interpreter maps a number
OtherInstanceUsed ==
    /\ run[2].kind # ""
    /\ ~run[2].disturbed
    /\ run' = [run EXCEPT ![2].rng = Advance(@, SampleRequest(UNICODE_NUMBERS, 1)),
                          ![2].disturbed = TRUE]
    /\ UNCHANGED <<rngstream, coreVars, generated, cycle, answered, summary, config, lateVars>>

InitSeed ==
    /\ NewMapper /\ NoPrompt /\ NoEvaluation
    /\ rngstream = {}
    /\ run = NoInstance
    /\ NoGenerated /\ NoCycle /\ NoAnswer /\ NoSummary /\ NoConfig /\ NoLate

NextSeed ==
    \/ \E r \in Runs : NewSeededInstance(r)
    \/ \E r \in Runs : SeededCreateNumberMapping(r)
    \/ \E r \in Runs : SeededGenerateProblem(r)
    \/ OtherInstanceConstructed
    \/ OtherInstanceUsed

SpecSeed == InitSeed /\ [][NextSeed]_vars

----------------------------------------------------------------------------
(* LLMEvaluator.extract_answer and check_answer (evaluator/evaluator.py).  *)

IsDigit(c) == c \in Range(Digits)
IsSign(c) == c \in {"+", "-"}
\* the characters \s matches and str.strip() removes, of those a text here is
\* written with: space, newline, tab, carriage return, form feed
IsSpace(c) == c \in {" ", "\n", "\t", "\r", "\f"}

\* re.IGNORECASE on the letters of the pattern, and the letters float() reads
\* in either case
Lower(c) == CASE c = "A" -> "a" [] c = "N" -> "n" [] c = "S" -> "s"
              [] c = "W" -> "w" [] c = "E" -> "e" [] c = "R" -> "r"
              [] c = "I" -> "i" [] c = "F" -> "f" [] c = "T" -> "t"
              [] c = "Y" -> "y" [] OTHER -> c

\* the first position from p on that holds no whitespace (Len(s) + 1 if none)
RECURSIVE SkipSpaces(_, _)
SkipSpaces(s, p) ==
    IF p <= Len(s) /\ IsSpace(s[p]) THEN SkipSpaces(s, p + 1) ELSE p

\* the first position from p on that holds no digit: \d* taken greedily
RECURSIVE DigitsEnd(_, _)
DigitsEnd(s, p) ==
    IF p <= Len(s) /\ IsDigit(s[p]) THEN DigitsEnd(s, p + 1) ELSE p

\* the last position that holds no whitespace (0 if none)
RECURSIVE LastNonSpace(_, _)
LastNonSpace(s, p) ==
    IF p >= 1 /\ IsSpace(s[p]) THEN LastNonSpace(s, p - 1) ELSE p

\* s.strip()
Strip(s) == SubSeq(s, SkipSpaces(s, 1), LastNonSpace(s, Len(s)))

\* [+-]?\d+(?:\.\d+)? matched at p, greedily: the position after the match,
\* or 0 when there is no match at p
NumberEnd(s, p) ==
    LET q == IF p <= Len(s) /\ IsSign(s[p]) THEN p + 1 ELSE p
        r == DigitsEnd(s, q)
    IN  IF r = q THEN 0
        ELSE IF r + 1 <= Len(s) /\ s[r] = "." /\ IsDigit(s[r + 1])
             THEN DigitsEnd(s, r + 1)
             ELSE r

\* word matched at p, ignoring case
MatchesWord(s, p, word) ==
    /\ p + Len(word) - 1 <= Len(s)
    /\ \A k \in 1..Len(word) : Lower(s[p + k - 1]) = word[k]

\* answer\s*(?:is|:)\s*([+-]?\d+(?:\.\d+)?) matched at p: <<start, end>> of
\* group 1 (end exclusive), or <<0, 0>>
AnswerIsAt(s, p) ==
    IF ~MatchesWord(s, p, <<"a", "n", "s", "w", "e", "r">>) THEN <<0, 0>>
    ELSE LET q == SkipSpaces(s, p + 6)
             a == IF MatchesWord(s, q, <<"i", "s">>) THEN q + 2
                  ELSE IF MatchesWord(s, q, <<":">>) THEN q + 1
                  ELSE 0
         IN  IF a = 0 THEN <<0, 0>>
             ELSE LET n == SkipSpaces(s, a)
                      e == NumberEnd(s, n)
                  IN  IF e = 0 THEN <<0, 0>> ELSE <<n, e>>

\* = and a number matched at p, wherever the number ends
EqualsAnywhereAt(s, p) ==
    IF ~MatchesWord(s, p, <<"=">>) THEN <<0, 0>>
    ELSE LET n == SkipSpaces(s, p + 1)
             e == NumberEnd(s, n)
         IN  IF e = 0 THEN <<0, 0>> ELSE <<n, e>>

\* =\s*([+-]?\d+(?:\.\d+)?)\s*$ matched at p
EqualsAtEndAt(s, p) ==
    IF ~MatchesWord(s, p, <<"=">>) THEN <<0, 0>>
    ELSE LET n == SkipSpaces(s, p + 1)
             e == NumberEnd(s, n)
         IN  IF e = 0 \/ SkipSpaces(s, e) # Len(s) + 1 THEN <<0, 0>> ELSE <<n, e>>

\* re.findall(number, s) from p on: the matches left to right, not overlapping
RECURSIVE FindAllNumbers(_, _)
FindAllNumbers(s, p) ==
    IF p > Len(s) THEN <<>>
    ELSE LET e == NumberEnd(s, p)
         IN  IF e = 0 THEN FindAllNumbers(s, p + 1)
             ELSE <<SubSeq(s, p, e - 1)>> \o FindAllNumbers(s, e)

\* extract_answer(response): Some(text) or None
extract_answer(response) ==
    LET r == Strip(response)
        m1 == {p \in 1..Len(r) : AnswerIsAt(r, p) # <<0, 0>>}
        m2 == {p \in 1..Len(r) : EqualsAtEndAt(r, p) # <<0, 0>>}
        Min(S) == CHOOSE x \in S : \A y \in S : x <= y
        numbers == FindAllNumbers(r, 1)
    IN  IF m1 # {}
        THEN LET g == AnswerIsAt(r, Min(m1)) IN Some(SubSeq(r, g[1], g[2] - 1))
        ELSE IF m2 # {}
        THEN LET g == EqualsAtEndAt(r, Min(m2)) IN Some(SubSeq(r, g[1], g[2] - 1))
        ELSE IF numbers # <<>> THEN Some(numbers[Len(numbers)])
        ELSE None

DigitValue(c) == (CHOOSE k \in DOMAIN Digits : Digits[k] = c) - 1

\* the number a run of digits writes
RECURSIVE DigitsValue(_)
DigitsValue(ds) ==
    IF ds = <<>> THEN 0
    ELSE 10 * DigitsValue(SubSeq(ds, 1, Len(ds) - 1)) + DigitValue(ds[Len(ds)])

RECURSIVE Pow10(_)
Pow10(n) == IF n = 0 THEN 1 ELSE 10 * Pow10(n - 1)

\* digit (["_"] digit)* matched at p, greedily: the position after the match,
\* p when no digit stands at p
RECURSIVE DigitPartEnd(_, _)
DigitPartEnd(s, p) ==
    IF p <= Len(s) /\ IsDigit(s[p])
    THEN IF p + 2 <= Len(s) /\ s[p + 1] = "_" /\ IsDigit(s[p + 2])
         THEN DigitPartEnd(s, p + 2)
         ELSE DigitPartEnd(s, p + 1)
    ELSE p

\* the digits of a digit part, its underscores left out
RECURSIVE DigitsOnly(_)
DigitsOnly(part) ==
    IF part = <<>> THEN <<>>
    ELSE (IF IsDigit(Head(part)) THEN <<Head(part)>> ELSE <<>>) \o DigitsOnly(Tail(part))

LowerText(s) == [i \in DOMAIN s |-> Lower(s[i])]

\* the digits without the zeros they begin with
RECURSIVE NoLeadingZeros(_)
NoLeadingZeros(ds) ==
    IF ds # <<>> /\ Head(ds) = "0" THEN NoLeadingZeros(Tail(ds)) ELSE ds

\* the exponent a run of digits writes; one of more than five digits is
\* beyond every double and is read as 100000
ExponentValue(ds) ==
    IF Len(NoLeadingZeros(ds)) > 5 THEN 100000 ELSE DigitsValue(NoLeadingZeros(ds))

\* the numeral with the digits whole before its point, frac after it, and the
\* exponent given: None when it has no digit on either side
ScaledFloat(sign, whole, frac, exponent) ==
    IF whole = <<>> /\ frac = <<>> THEN None
    ELSE Some([neg |-> sign < 0, digits |-> whole \o frac,
               exp10 |-> exponent - Len(frac), special |-> ""])

\* the numeral body read up to g: its whole part ends before r, its fraction
\* before f, the digits of its exponent start at x (x = f: no exponent)
FloatParts(sign, body, r, f, x, g) ==
    IF g # Len(body) + 1 \/ (x # f /\ g = x) THEN None
    ELSE ScaledFloat(sign, DigitsOnly(SubSeq(body, 1, r - 1)),
                     DigitsOnly(SubSeq(body, r + 1, f - 1)),
                     IF x = f THEN 0
                     ELSE (IF body[x - 1] = "-" THEN -1 ELSE 1)
                             * ExponentValue(DigitsOnly(SubSeq(body, x, g - 1))))

\* ... with the digits of the exponent read from x
FloatExponent(sign, body, r, f, x) ==
    FloatParts(sign, body, r, f, x, IF x = f THEN f ELSE DigitPartEnd(body, x))

\* ... with the exponent marker, "e" or "E" and an optional sign, read at f
FloatFraction(sign, body, r, f) ==
    FloatExponent(sign, body, r, f,
                  IF f <= Len(body) /\ Lower(body[f]) = "e"
                  THEN IF f + 1 <= Len(body) /\ IsSign(body[f + 1]) THEN f + 2 ELSE f + 1
                  ELSE f)

\* ... with the point and the fraction read at r
FloatWhole(sign, body, r) ==
    FloatFraction(sign, body, r,
                  IF r <= Len(body) /\ body[r] = "." THEN DigitPartEnd(body, r + 1) ELSE r)

\* the text after the sign: "inf", "infinity" or "nan" in any case, or a
\* decimal numeral (digits, with single underscores between them, on one side
\* at least of an optional point) with an optional exponent
SignedFloat(sign, body) ==
    IF LowerText(body) \in {<<"i", "n", "f">>, <<"i", "n", "f", "i", "n", "i", "t", "y">>}
    THEN Some([neg |-> sign < 0, digits |-> <<>>, exp10 |-> 0, special |-> "inf"])
    ELSE IF LowerText(body) = <<"n", "a", "n">>
    THEN Some([neg |-> sign < 0, digits |-> <<>>, exp10 |-> 0, special |-> "nan"])
    ELSE FloatWhole(sign, body, DigitPartEnd(body, 1))

\* the stripped text: an optional sign, then the rest
StrippedFloat(t) ==
    IF t # <<>> /\ IsSign(t[1])
    THEN SignedFloat(IF t[1] = "-" THEN -1 ELSE 1, Tail(t))
    ELSE SignedFloat(1, t)

\* float(text), as far as reading goes.  Some([neg, digits, exp10, special]):
\* the numeral of the value digits * 10^exp10, negated if neg, when special is
\* "", else the infinity or the nan; None for ValueError.
ParseFloat(text) == StrippedFloat(Strip(text))

\* tolerance: float = 0.01, as hundredths
ToleranceHundredths == 1

\* Python's float is the IEEE 754 binary64: a significand of 53 bits and an
\* exponent of 11, every result rounded to the nearest, ties to the even
\* significand.  The numbers the significands are computed with are longer than
\* TLC's integers and are kept as sequences of limbs of 10 bits, least
\* significant first, without leading zeros.
SignificandBits == 53
ExponentBits == 11
LimbBits == 10

RECURSIVE Pow2(_)
Pow2(n) == IF n = 0 THEN 1 ELSE 2 * Pow2(n - 1)

Limb == Pow2(LimbBits)

\* the number of bits of n
RECURSIVE BitLen(_)
BitLen(n) == IF n = 0 THEN 0 ELSE 1 + BitLen(n \div 2)

RECURSIVE Big(_)
Big(n) == IF n = 0 THEN <<>> ELSE <<n % Limb>> \o Big(n \div Limb)

\* a without its leading zero limbs
BigTrim(a) ==
    LET inked == {i \in DOMAIN a : a[i] # 0}
    IN  IF inked = {} THEN <<>>
        ELSE SubSeq(a, 1, CHOOSE i \in inked : \A j \in inked : j <= i)

\* the limbs of a sequence of numbers of any size, with a carry coming in: the
\* limbs and the carry going out.  The sequence is halved rather than walked,
\* and the carry is looked at before the sequence is, so that the low half is
\* done before the high one is begun: both keep the evaluation shallow.
RECURSIVE Carried(_, _)
Carried(raw, carry) ==
    IF carry = 0 /\ raw = <<>> THEN [d |-> <<>>, c |-> 0]
    ELSE IF raw = <<>> THEN [d |-> <<>>, c |-> carry]
    ELSE IF Len(raw) = 1
    THEN [d |-> <<(raw[1] + carry) % Limb>>, c |-> (raw[1] + carry) \div Limb]
    ELSE LET low == Carried(SubSeq(raw, 1, Len(raw) \div 2), carry)
             high == Carried(SubSeq(raw, Len(raw) \div 2 + 1, Len(raw)), low.c)
         IN  [d |-> low.d \o high.d, c |-> high.c]

\* the limb of a at i, 0 beyond its length
LimbAt(a, i) == IF i <= Len(a) THEN a[i] ELSE 0

BigAdd(a, b) ==
    LET sum == Carried([i \in 1..(IF Len(a) > Len(b) THEN Len(a) ELSE Len(b)) |->
                           LimbAt(a, i) + LimbAt(b, i)], 0)
    IN  sum.d \o Big(sum.c)

\* a - b for a >= b
BigSub(a, b) == BigTrim(Carried([i \in DOMAIN a |-> a[i] - LimbAt(b, i)], 0).d)

BigLess(a, b) ==
    IF Len(a) # Len(b) THEN Len(a) < Len(b)
    ELSE LET differ == {i \in DOMAIN a : a[i] # b[i]}
         IN  /\ differ # {}
             /\ LET top == CHOOSE i \in differ : \A j \in differ : j <= i
                IN  a[top] < b[top]

\* a * m + carry for a small m
BigMulSmall(a, m, carry) ==
    LET product == Carried([i \in DOMAIN a |-> a[i] * m], carry)
    IN  product.d \o Big(product.c)

\* a * 2^n
BigShift(a, n) ==
    IF a = <<>> THEN a
    ELSE [i \in 1..(n \div LimbBits) |-> 0] \o BigMulSmall(a, Pow2(n % LimbBits), 0)

\* a with the remainder r above it, divided by a small d: the quotient (not
\* trimmed) and the remainder.  The remainder is looked at before a is, so
\* that the high half is done before the low one is begun.
RECURSIVE DividedFrom(_, _, _)
DividedFrom(a, d, r) ==
    IF r = 0 /\ a = <<>> THEN [q |-> <<>>, r |-> 0]
    ELSE IF a = <<>> THEN [q |-> <<>>, r |-> r]
    ELSE IF Len(a) = 1
    THEN [q |-> <<(r * Limb + a[1]) \div d>>, r |-> (r * Limb + a[1]) % d]
    ELSE LET high == DividedFrom(SubSeq(a, Len(a) \div 2 + 1, Len(a)), d, r)
             low == DividedFrom(SubSeq(a, 1, Len(a) \div 2), d, high.r)
         IN  [q |-> low.q \o high.q, r |-> low.r]

BigDivSmall(a, d) == DividedFrom(a, d, 0)

BigOdd(a) == a # <<>> /\ a[1] % 2 = 1

BigBitLen(a) == IF a = <<>> THEN 0 ELSE LimbBits * (Len(a) - 1) + BitLen(a[Len(a)])

\* a / 2^j rounded to the nearest, ties to even
ShiftRound(a, j) ==
    IF j = 0 THEN a
    ELSE LET whole == j \div LimbBits
             qr == BigDivSmall(SubSeq(a, whole + 1, Len(a)), Pow2(j % LimbBits))
             q == BigTrim(qr.q)
             rest == BigTrim(SubSeq(a, 1, whole) \o <<qr.r>>)
             half == BigShift(Big(1), j - 1)
         IN  IF BigLess(half, rest) \/ (rest = half /\ BigOdd(q))
             THEN BigAdd(q, Big(1)) ELSE q

\* n / d of two ints, n >= 0 and d > 0, negated if neg: the double m / 2^k
\* nearest to the quotient
FloatQuotient(n, d, neg) ==
    IF n = 0 THEN [m |-> <<>>, k |-> 0, neg |-> FALSE]
    ELSE LET low == BigShift(Big(d), SignificandBits - 1)
             k0 == SignificandBits - 1 + BitLen(d) - BigBitLen(Big(n))
             k == IF BigLess(BigShift(Big(n), k0), low) THEN k0 + 1 ELSE k0
             qr == BigDivSmall(BigShift(Big(n), k), d)
             q == BigTrim(qr.q)
             roundUp == 2 * qr.r > d \/ (2 * qr.r = d /\ BigOdd(q))
         IN  [m |-> IF roundUp THEN BigAdd(q, Big(1)) ELSE q, k |-> k, neg |-> neg]

\* x * c of a double and a small positive whole number, rounded to a double
FloatTimes(x, c) ==
    LET exact == BigMulSmall(x.m, c, 0)
        j == IF BigBitLen(exact) > SignificandBits
             THEN BigBitLen(exact) - SignificandBits ELSE 0
    IN  [m |-> ShiftRound(exact, j), k |-> x.k - j, neg |-> x.neg]

\* the double m / 2^k written with an odd m (the zero with no m and k = 0)
RECURSIVE FloatNormal(_)
FloatNormal(x) ==
    IF x.m = <<>> THEN [m |-> <<>>, k |-> 0, neg |-> FALSE]
    ELSE IF BigOdd(x.m) THEN x
    ELSE FloatNormal([x EXCEPT !.m = BigTrim(BigDivSmall(x.m, 2).q), !.k = x.k - 1])

\* A double is [m, k, neg, special]: the value m / 2^k, negated if neg, when
\* special is "", with m of 53 bits, or of fewer and k = MaxScale (a subnormal
\* or a zero); else the infinity or the nan.  MinScale is the k of the largest.
MaxScale == Pow2(ExponentBits - 1) + SignificandBits - 3
MinScale == SignificandBits - Pow2(ExponentBits - 1)

Double(m, k, neg) == [m |-> m, k |-> k, neg |-> neg, special |-> ""]
Zero(neg) == Double(<<>>, MaxScale, neg)
Infinity(neg) == [m |-> <<>>, k |-> 0, neg |-> neg, special |-> "inf"]
NaN == [m |-> <<>>, k |-> 0, neg |-> FALSE, special |-> "nan"]

RECURSIVE IntPow(_, _)
IntPow(base, n) == IF n = 0 THEN 1 ELSE base * IntPow(base, n - 1)

\* a * base^n for a small base, up to six factors at a time; a longer run of
\* factors is halved, which keeps the evaluation shallow
RECURSIVE BigTimesPow(_, _, _)
BigTimesPow(a, base, n) ==
    IF a = <<>> THEN a
    ELSE IF n <= 6 THEN BigMulSmall(a, IntPow(base, n), 0)
    ELSE BigTimesPow(BigTimesPow(a, base, n \div 2), base, n - n \div 2)

\* the number a run of digits writes, as limbs: a longer run is halved
RECURSIVE BigOfDigits(_)
BigOfDigits(ds) ==
    IF Len(ds) <= 6 THEN Big(DigitsValue(ds))
    ELSE BigAdd(BigTimesPow(BigOfDigits(SubSeq(ds, 1, Len(ds) \div 2)), 10,
                            Len(ds) - Len(ds) \div 2),
                BigOfDigits(SubSeq(ds, Len(ds) \div 2 + 1, Len(ds))))

\* floor(a / 5^s), and whether anything was left over (or sticky was set)
DivSmallPow5(a, s, sticky) ==
    LET qr == BigDivSmall(a, IntPow(5, s))
    IN  [q |-> BigTrim(qr.q), sticky |-> sticky \/ qr.r # 0]

RECURSIVE DivPow5After(_, _)
RECURSIVE DivPow5(_, _, _)
DivPow5(a, s, sticky) ==
    IF s <= 6 THEN DivSmallPow5(a, s, sticky)
    ELSE DivPow5After(DivPow5(a, s \div 2, sticky), s - s \div 2)
DivPow5After(first, s) ==
    IF first.q = <<>> THEN first ELSE DivPow5(first.q, s, first.sticky)

\* floor(a / 2^j), and whether anything was left over
ShiftDown(a, j) ==
    LET whole == j \div LimbBits
        qr == BigDivSmall(SubSeq(a, whole + 1, Len(a)), Pow2(j % LimbBits))
    IN  [q |-> BigTrim(qr.q),
         sticky |-> qr.r # 0 \/ \E i \in 1..Min2(whole, Len(a)) : a[i] # 0]

\* floor(a * 2^t) for t of either sign
Shifted(a, t) ==
    IF t >= 0 THEN [q |-> BigShift(a, t), sticky |-> FALSE] ELSE ShiftDown(a, -t)

\* m / 2^k with m of 53 bits at most: an infinity when beyond the largest double
Ranged(m, k, neg) == IF k < MinScale THEN Infinity(neg) ELSE Double(m, k, neg)

\* m / 2^k with m of 53 bits, or 2^53 after a rounding up
Finite(m, k, neg) ==
    IF m = <<>> THEN Zero(neg)
    ELSE IF BigBitLen(m) > SignificandBits
    THEN Ranged(BigTrim(BigDivSmall(m, 2).q), k - 1, neg)
    ELSE Ranged(m, k, neg)

\* the double nearest to v, ties to even, given q2 = floor(v * 2^(k + 1)) and
\* whether v * 2^(k + 1) is more than q2
RoundHalfEven(q2, sticky, k, neg) ==
    LET m == BigTrim(BigDivSmall(q2, 2).q)
    IN  Finite(IF BigOdd(q2) /\ (sticky \/ BigOdd(m)) THEN BigAdd(m, Big(1)) ELSE m,
               k, neg)

\* floor(log2(n / p)) for n > 0 and p > 0
Log2Quotient(n, p) ==
    LET bn == BigBitLen(n)
        bp == BigBitLen(p)
    IN  IF BigLess(BigShift(n, IF bp > bn THEN bp - bn ELSE 0),
                   BigShift(p, IF bn > bp THEN bn - bp ELSE 0))
        THEN bn - bp - 1 ELSE bn - bp

\* n / (2^a * 5^s) rounded to a multiple of 2^-k
RoundedAt(n, a, s, k, neg) ==
    LET sh == Shifted(n, k + 1 - a)
        dv == DivPow5(sh.q, s, sh.sticky)
    IN  RoundHalfEven(dv.q, dv.sticky, k, neg)

\* the double nearest to n / (2^a * 5^s): 53 bits of it, or what is left of
\* them above 2^-MaxScale
FloatRounded(n, a, s, neg) ==
    IF n = <<>> THEN Zero(neg)
    ELSE RoundedAt(n, a, s,
                   Min2(SignificandBits - 1 + a
                          - Log2Quotient(n, BigTimesPow(Big(1), 5, s)), MaxScale),
                   neg)

\* the double nearest to the numeral with the digits sig, none of them a
\* leading zero: an infinity from 10^342 on, which is beyond 2^1024, a zero
\* below 10^-359, which is below 2^-1075
FloatOfDigits(sig, exp10, neg) ==
    IF sig = <<>> THEN Zero(neg)
    ELSE IF 3 * (Len(sig) - 1 + exp10) >= SignificandBits - MinScale THEN Infinity(neg)
    ELSE IF 3 * (0 - Len(sig) - exp10) > MaxScale THEN Zero(neg)
    ELSE IF exp10 >= 0 THEN FloatRounded(BigTimesPow(BigOfDigits(sig), 10, exp10), 0, 0, neg)
    ELSE FloatRounded(BigOfDigits(sig), 0 - exp10, 0 - exp10, neg)

\* float(text) of the text read as a: the double nearest to the numeral
FloatOf(a) ==
    IF a.special = "inf" THEN Infinity(a.neg)
    ELSE IF a.special = "nan" THEN NaN
    ELSE FloatOfDigits(NoLeadingZeros(a.digits), a.exp10, a.neg)

\* abs(x - y) of two finite doubles, rounded to a double
FloatAbsDiff(x, y) ==
    LET k == IF x.k > y.k THEN x.k ELSE y.k
        xm == BigShift(x.m, k - x.k)
        ym == BigShift(y.m, k - y.k)
    IN  FloatRounded(IF x.neg # y.neg THEN BigAdd(xm, ym)
                     ELSE IF BigLess(xm, ym) THEN BigSub(ym, xm)
                     ELSE BigSub(xm, ym),
                     k, 0, FALSE)

\* x < y for finite doubles that are not negative
FloatLess(x, y) ==
    LET k == IF x.k > y.k THEN x.k ELSE y.k
    IN  BigLess(BigShift(x.m, k - x.k), BigShift(y.m, k - y.k))

\* a tolerance of a tenth
Tolerance_tenth == FloatOfDigits(<<"1">>, -1, FALSE)

\* the tolerance as a double
Tolerance == FloatOfDigits(Str(ToleranceHundredths), -2, FALSE)

\* d < tolerance: False for an infinity
BelowTolerance(d) == d.special = "" /\ FloatLess(d, Tolerance)

\* abs(x - y) < tolerance for two doubles: False when one of them, or their
\* difference, is an infinity or a nan
WithinTolerance(x, y) ==
    x.special = "" /\ y.special = "" /\ BelowTolerance(FloatAbsDiff(x, y))

\* the comparison of check_answer once float() has been tried on both: a and
\* b are None where it raised ValueError
CompareParsed(a, b, extracted, expected) ==
    IF a # None /\ b # None
    THEN WithinTolerance(FloatOf(a[1]), FloatOf(b[1]))
    ELSE Strip(extracted) = Strip(expected)

\* check_answer(extracted, expected): extracted is None or Some(text)
check_answer(extracted, expected) ==
    IF extracted = None THEN FALSE
    ELSE CompareParsed(ParseFloat(extracted[1]), ParseFloat(expected),
                       extracted[1], expected)

----------------------------------------------------------------------------
(* LLMEvaluator.evaluate_problem and evaluate_problems.                    *)

\* The problems of a batch: answer, principle, difficulty, requires_reasoning.
ProblemInputs ==
    { [answer |-> <<"8">>, principle |-> "commutativity", difficulty |-> "easy",
       requires_reasoning |-> TRUE],
      [answer |-> <<"7">>, principle |-> "identity", difficulty |-> "medium",
       requires_reasoning |-> FALSE] }

\* The model argument of the call, and the model the endpoint says it served.
RequestedModel == "anthropic/claude-3.5-sonnet"
ServedModel == "served"

\* What OpenRouterClient.complete returns: a ModelResponse (its response is
\* the content of the first choice, null for a choice without text) ...
ModelResponses ==
    { [model |-> ServedModel, response |-> Some(<<"A", "n", "s", "w", "e", "r", ":", " ", "8">>),
       prompt_tokens |-> 12, completion_tokens |-> 3, latency |-> 2],
      [model |-> ServedModel, response |-> Some(<<"7">>),
       prompt_tokens |-> 12, completion_tokens |-> 1, latency |-> 1],
      [model |-> ServedModel, response |-> Some(<<"n", "o">>),
       prompt_tokens |-> 12, completion_tokens |-> 1, latency |-> 1],
      [model |-> ServedModel, response |-> None,
       prompt_tokens |-> 12, completion_tokens |-> 0, latency |-> 1] }
\* ... or the text of the exception it raises: one in ASCII, and one with a
\* character outside ASCII
ServiceUnavailable == <<"5", "0", "3">>
RemoteErrors == { ServiceUnavailable, <<"c", "a", "f", "e acute">> }

\* str(e) of the AttributeError extract_answer raises on a null response
NoStripError ==
    <<"'", "N", "o", "n", "e", "T", "y", "p", "e", "'", " ", "o", "b", "j", "e", "c", "t",
      " ", "h", "a", "s", " ", "n", "o", " ", "a", "t", "t", "r", "i", "b", "u", "t", "e",
      " ", "'", "s", "t", "r", "i", "p", "'">>

\* f"ERROR: {str(e)}"
ErrorText(e) == <<"E", "R", "R", "O", "R", ":", " ">> \o e

\* problem_id=i as evaluate_problems passes it
ProblemId(i) == i

\* evaluate_problem raises after the remote call returned: response.strip()
\* of a null response
EvaluateProblemRaises(response) == response.response = None

\* evaluate_problem(problem, prompt, model, temperature, problem_id) once
\* client.complete has returned response
evaluate_problem(problem, response, problem_id) ==
    LET extracted == extract_answer(response.response[1])
        is_correct == check_answer(extracted, problem.answer)
    IN  [problem_id |-> problem_id,
         principle |-> problem.principle,
         difficulty |-> problem.difficulty,
         expected_answer |-> problem.answer,
         model_response |-> response.response[1],
         extracted_answer |-> extracted,
         is_correct |-> is_correct,
         requires_reasoning |-> problem.requires_reasoning,
         model |-> response.model,
         prompt_tokens |-> response.prompt_tokens,
         completion_tokens |-> response.completion_tokens,
         latency |-> response.latency]

\* the failed result evaluate_problems builds in its except branch
FailedResult(problem, i, e, model) ==
    [problem_id |-> i,
     principle |-> problem.principle,
     difficulty |-> problem.difficulty,
     expected_answer |-> problem.answer,
     model_response |-> ErrorText(e),
     extracted_answer |-> None,
     is_correct |-> FALSE,
     requires_reasoning |-> problem.requires_reasoning,
     model |-> model,
     prompt_tokens |-> 0,
     completion_tokens |-> 0,
     latency |-> 0]

\* except Exception as e: ... results.append(EvaluationResult(...))
AfterException(rs, failed) == Append(rs, failed)

\* sys.stdout encodes what print writes with its encoding and errors="strict":
\* utf-8 encodes every character, ascii the ASCII characters only
StdoutEncodings == {"utf-8", "ascii"}

\* U+2713 and U+2717, the marks of the progress line
CheckMark == "check mark"
BallotX == "ballot x"

\* the characters of the model that are not ASCII: the two marks, U+00E9 and
\* the glyphs of the pools
NonAscii ==
    {CheckMark, BallotX, "e acute"}
        \cup UNION {Range(g) : g \in Range(UNICODE_NUMBERS \o UNICODE_OPERATORS
                                              \o UNICODE_RELATIONS \o UNICODE_VARIABLES)}

\* print(text) raises UnicodeEncodeError
PrintRaises(text, encoding) ==
    encoding = "ascii" /\ \E i \in DOMAIN text : text[i] \in NonAscii

\* status = <check mark> if result.is_correct else <ballot x>;
\* f"{status} ({result.extracted_answer} vs {result.expected_answer})"
ProgressLine(result) ==
    <<IF result.is_correct THEN CheckMark ELSE BallotX, " ", "(">>
        \o (IF result.extracted_answer = None THEN <<"N", "o", "n", "e">>
            ELSE result.extracted_answer[1])
        \o <<" ", "v", "s", " ">> \o result.expected_answer \o <<")">>

\* str(e) of the UnicodeEncodeError print raises on a progress line: the
\* encoder stops at the mark, the first character of the line
EncodeErrorText(line) ==
    <<
      "'", "a", "s", "c", "i", "i", "'", " ", "c", "o", "d", "e", "c", " ", "c", "a",
      "n", "'", "t", " ", "e", "n", "c", "o", "d", "e", " ", "c", "h", "a", "r", "a",
      "c", "t", "e", "r", " ", "'"
    >> \o <<"\\", "u", "2", "7", "1", IF line[1] = CheckMark THEN "3" ELSE "7">> \o <<
      "'", " ", "i", "n", " ", "p", "o", "s", "i", "t", "i", "o", "n", " ", "0", ":",
      " ", "o", "r", "d", "i", "n", "a", "l", " ", "n", "o", "t", " ", "i", "n", " ",
      "r", "a", "n", "g", "e", "(", "1", "2", "8", ")"
    >>

\* f"Error: {e}", the first line the except branch prints
ErrorLine(e) == <<"E", "r", "r", "o", "r", ":", " ">> \o e

\* except Exception as e: the two prints when verbose, both carrying str(e),
\* then the failed result is appended; a print that raises here leaves the
\* call (raised), with nothing appended
ExceptBranch(rs, problem, i, e, talk, encoding) ==
    IF talk /\ PrintRaises(ErrorLine(e), encoding)
    THEN [results |-> rs, raised |-> TRUE]
    ELSE [results |-> AfterException(rs, FailedResult(problem, i, e, RequestedModel)),
          raised |-> FALSE]

\* the try branch after results.append(result), rs ending with the result:
\* the progress line is printed when verbose, and a print that raises is
\* caught by the except branch of the same pair
ProgressPrinted(rs, problem, i, talk, encoding) ==
    IF talk /\ PrintRaises(ProgressLine(rs[Len(rs)]), encoding)
    THEN ExceptBranch(rs, problem, i, EncodeErrorText(ProgressLine(rs[Len(rs)])),
                      talk, encoding)
    ELSE [results |-> rs, raised |-> FALSE]

\* the try statement once client.complete has returned response: the rest
\* of evaluate_problem (which raises on a null response), the append and the
\* progress line
TryBranch(rs, problem, i, response, talk, encoding) ==
    IF EvaluateProblemRaises(response)
    THEN ExceptBranch(rs, problem, i, NoStripError, talk, encoding)
    ELSE ProgressPrinted(Append(rs, evaluate_problem(problem, response, ProblemId(i))),
                         problem, i, talk, encoding)

\* a delay after every pair, the last one too
DelayAfter_every(i, n) == i < n

\* if i < len(problems) - 1: time.sleep(delay)
DelayAfter(i, n) == i < n - 1

\* if len(problems) != len(prompts): raise ValueError; results = []
EvaluateProblemsStart ==
    /\ pc = "start"
    /\ IF Len(problems) # Len(prompts)
       THEN pc' = "raised"
       ELSE pc' = "loop"
    /\ UNCHANGED <<problems, prompts, verbose, stdout, idx, results, outcomes, events, mapperVars, promptVars, restVars>>

\* the next pair of zip(problems, prompts): the line "Evaluating problem
\* i/n... " is printed when verbose (it is ASCII), and the remote call begins
RemoteCallBegins ==
    /\ pc = "loop"
    /\ idx < Len(problems)
    /\ pc' = "calling"
    /\ events' = Append(events, <<"begin", idx>>)
    /\ UNCHANGED <<problems, prompts, verbose, stdout, idx, results, outcomes, mapperVars, promptVars, restVars>>

\* after the try statement: the delay, or straight on to the next pair
AfterTry ==
    IF DelayAfter(idx, Len(problems))
    THEN pc' = "sleep" /\ idx' = idx
    ELSE pc' = "loop" /\ idx' = idx + 1

\* the try statement has left after: the call goes on, or it has raised
TryEnded(after) ==
    /\ results' = after.results
    /\ IF after.raised THEN pc' = "raised" /\ idx' = idx ELSE AfterTry

\* client.complete returns: the rest of evaluate_problem, the append and the
\* progress line
RemoteCallReturns ==
    /\ pc = "calling"
    /\ \E response \in ModelResponses :
         /\ outcomes' = Append(outcomes, [raised |-> FALSE, response |-> Some(response),
                                          error |-> <<>>])
         /\ TryEnded(TryBranch(results, problems[idx + 1], idx, response, verbose, stdout))
    /\ events' = Append(events, <<"end", idx>>)
    /\ UNCHANGED <<problems, prompts, verbose, stdout, mapperVars, promptVars, restVars>>

\* client.complete raises: the except branch
RemoteCallRaises ==
    /\ pc = "calling"
    /\ \E e \in RemoteErrors :
         /\ outcomes' = Append(outcomes, [raised |-> TRUE, response |-> None, error |-> e])
         /\ TryEnded(ExceptBranch(results, problems[idx + 1], idx, e, verbose, stdout))
    /\ events' = Append(events, <<"end", idx>>)
    /\ UNCHANGED <<problems, prompts, verbose, stdout, mapperVars, promptVars, restVars>>

\* time.sleep(delay)
Delay ==
    /\ pc = "sleep"
    /\ events' = Append(events, <<"sleep", idx>>)
    /\ idx' = idx + 1
    /\ pc' = "loop"
    /\ UNCHANGED <<problems, prompts, verbose, stdout, results, outcomes, mapperVars, promptVars, restVars>>

\* return results
EvaluateProblemsReturns ==
    /\ pc = "loop"
    /\ idx >= Len(problems)
    /\ pc' = "returned"
    /\ UNCHANGED <<problems, prompts, verbose, stdout, idx, results, outcomes, events, mapperVars, promptVars, restVars>>

SeqsUpTo(S, n) == UNION {[1..k -> S] : k \in 0..n}

\* evaluate_problems(problems, prompts, verbose=...) is called: any problems,
\* as many prompts or one more, with or without the progress output, on a
\* stdout of either encoding
InitEval ==
    /\ NewMapper
    /\ NoRest
    /\ NoPrompt
    /\ problems \in SeqsUpTo(ProblemInputs, MaxPairs)
    /\ prompts \in {[k \in 1..n |-> k] : n \in {Len(problems), Len(problems) + 1}}
    /\ pc = "start"
    /\ idx = 0
    /\ results = <<>>
    /\ outcomes = <<>>
    /\ events = <<>>
    /\ verbose \in BOOLEAN
    /\ stdout \in StdoutEncodings

NextEval ==
    \/ EvaluateProblemsStart
    \/ RemoteCallBegins
    \/ RemoteCallReturns
    \/ RemoteCallRaises
    \/ Delay
    \/ EvaluateProblemsReturns

SpecEval == InitEval /\ [][NextEval]_vars

----------------------------------------------------------------------------
(* extract_answer and check_answer applied to texts.                       *)

MaxFragments == 3

\* the pieces the responses are put together from
ResponseFragments ==
    { <<"a", "n", "s", "w", "e", "r", " ", "i", "s", " ">>,
      <<"A", "N", "S", "W", "E", "R", ":">>,
      <<"=">>, <<"=", " ", "7">>, <<" ">>, <<"\r">>, <<"4", "2">>, <<"-", "3", ".", "5">>,
      <<".">>, <<"x">> }

\* the responses of the documentation
ExampleResponses ==
    { <<".", ".", ".", " ", "t", "h", "e", " ", "a", "n", "s", "w", "e", "r", " ",
        "i", "s", " ", "4", "2">>,
      <<"5", " ", "+", " ", "3", " ", "=", " ", "8">>,
      <<".", ".", ".", "f", "i", "n", "a", "l", " ", "r", "e", "s", "u", "l", "t", ":",
        " ", "1", "7", " ", "w", "i", "d", "g", "e", "t", "s", " ", "a", "n", "d", " ",
        "3", " ", "b", "o", "x", "e", "s">> }

\* the response texts extract_answer is given
Responses ==
    {Concat(fs) : fs \in SeqsUpTo(ResponseFragments, MaxFragments)} \cup ExampleResponses

\* evaluator.extract_answer(response)
ExtractAnswer ==
    /\ answered # None
    /\ answered[1].call = "extract_answer"
    /\ answered[1].out = None
    /\ answered' = Some([answered[1] EXCEPT
                            !.out = Some(extract_answer(answered[1].response))])
    /\ UNCHANGED <<coreVars, seedVars, generated, cycle, summary, config, lateVars>>

\* the texts check_answer is given as the extracted answer, and as the
\* expected one
ExtractedTexts ==
    { <<"8">>, <<"8", ".", "0">>, <<"8", ".", "0", "1">>,
      <<"8", ".", "0", "0", "9">>, <<"8", ".", "0", "5">>,
      <<"7", ".", "9", "9">>, <<"e", "i", "g", "h", "t">>,
      <<" ", "8", " ">>, <<"e", "i", "g", "h", "t", " ">>,
      <<" ", "e", "i", "g", "h", "t">>, <<"1", ".", "0", "1">>,
      <<"-", "8">>, <<>>, <<"8", ".">>, <<"8", "e", "0">>, <<"8", "0", "0", "E", "-", "2">>,
      <<"1", "_", "0">>, <<"1", "_">>, <<"8", "e">>, <<"i", "n", "f">>, <<"n", "a", "n">>,
      <<"8", "\r">>,
      <<"9", "0", "0", "7", "1", "9", "9", "2", "5", "4", "7", "4", "0", "9", "9", "3">>,
      <<"8", ".", "0", "1", "0", "0", "0", "0", "0", "0", "0", "0", "0", "0", "0", "0", "0", "1">>,
      <<"1", ".", "0", "0", "9", "9", "9", "9", "9", "9", "9", "9", "9", "9", "9", "9", "9", "9", "9", "9", "9">>,
      <<"0", ".", "0", "1">>, <<"3", "e", "-", "3", "2", "4">>,
      <<"1", "e", "4", "0", "0">>,
      <<"1", ".", "7", "9", "7", "6", "9", "3", "1", "3", "4", "8", "6", "2", "3", "1", "5", "9", "e", "3", "0", "8">>,
      <<"-", "1", ".", "7", "9", "7", "6", "9", "3", "1", "3", "4", "8", "6", "2", "3", "1", "5", "8", "e", "3", "0", "8">> }
ExpectedTexts ==
    { <<"8">>, <<"8", ".", "0">>, <<"1">>, <<"e", "i", "g", "h", "t">>,
      <<" ", "e", "i", "g", "h", "t">>, <<"-", "8", ".", "0", "1">>, <<"1", "0">>,
      <<"i", "n", "f">>, <<"-", "I", "n", "f", "i", "n", "i", "t", "y">>,
      <<"n", "a", "n">>,
      <<"9", "0", "0", "7", "1", "9", "9", "2", "5", "4", "7", "4", "0", "9", "9", "2">>,
      <<"1", "e", "-", "2", "0">>, <<"0">>, <<"1", "E", "4", "0", "0">>,
      <<"1", ".", "7", "9", "7", "6", "9", "3", "1", "3", "4", "8", "6", "2", "3", "1", "5", "8", "e", "3", "0", "8">> }

\* evaluator.check_answer(extracted, expected)
CheckAnswer ==
    /\ answered # None
    /\ answered[1].call = "check_answer"
    /\ answered[1].out = None
    /\ answered' = Some([answered[1] EXCEPT
                            !.out = Some(check_answer(answered[1].extracted,
                                                      answered[1].expected))])
    /\ UNCHANGED <<coreVars, seedVars, generated, cycle, summary, config, lateVars>>

\* an evaluator, and the text it is about to be given
InitAnswer ==
    /\ NewMapper
    /\ NoPrompt
    /\ NoEvaluation
    /\ NoSeed /\ NoGenerated /\ NoCycle /\ NoSummary /\ NoConfig /\ NoLate
    /\ \/ \E response \in Responses :
             answered = Some([call |-> "extract_answer", response |-> response,
                              out |-> None])
       \/ \E extracted \in {None} \cup {Some(text) : text \in ExtractedTexts},
             expected \in ExpectedTexts :
             answered = Some([call |-> "check_answer", extracted |-> extracted,
                              expected |-> expected, out |-> None])

NextAnswer ==
    \/ ExtractAnswer
    \/ CheckAnswer

SpecAnswer == InitAnswer /\ [][NextAnswer]_vars

----------------------------------------------------------------------------
(* LLMEvaluator.summarize_results.                                         *)

MaxResults == 2

\* the results a summary is made of: what evaluate_problem and the except
\* branch of evaluate_problems build
ResultInputs ==
    { evaluate_problem(problem, response, 0) :
          problem \in ProblemInputs,
          response \in {r \in ModelResponses : ~EvaluateProblemRaises(r)} }
    \cup { FailedResult(problem, 0, e, RequestedModel) :
               problem \in ProblemInputs, e \in RemoteErrors }

\* the float a / b of one division, kept as the pair of its terms
Ratio(a, b) == <<a, b>>

\* sum(...) over a list of numbers
RECURSIVE Sum(_)
Sum(ns) == IF ns = <<>> THEN 0 ELSE Head(ns) + Sum(Tail(ns))

\* sum(1 for r in results if r.is_correct)
CountCorrect(rs) == Sum([i \in DOMAIN rs |-> IF rs[i].is_correct THEN 1 ELSE 0])

\* the keys of a dict filled in the order of the list: first occurrences
RECURSIVE FirstSeen(_, _)
FirstSeen(ks, seen) ==
    IF ks = <<>> THEN seen
    ELSE FirstSeen(Tail(ks), IF Head(ks) \in Range(seen) THEN seen
                             ELSE Append(seen, Head(ks)))

\* every result counted in every group
InGroup_all(k, key) == TRUE

\* the results a group counts: those of its key
InGroup(k, key) == k = key

\* {"correct": ..., "total": ..., "accuracy": correct / total} of one key
GroupStats(rs, ks, key) ==
    LET total == Sum([i \in DOMAIN rs |-> IF InGroup(ks[i], key) THEN 1 ELSE 0])
        correct == Sum([i \in DOMAIN rs |->
                           IF InGroup(ks[i], key) /\ rs[i].is_correct THEN 1 ELSE 0])
    IN  [correct |-> correct, total |-> total,
         accuracy |-> IF total > 0 THEN Ratio(correct, total) ELSE Ratio(0, 1)]

\* by_principle / by_difficulty: a dict from the key to its statistics
GroupBy(rs, ks) ==
    LET keys == FirstSeen(ks, <<>>)
    IN  [j \in DOMAIN keys |-> <<keys[j], GroupStats(rs, ks, keys[j])>>]

\* cost_per_million = 3.0, in dollars, and the million it is for:
\* total_cost_estimate = (total_tokens / 1_000_000) * cost_per_million, the
\* division rounded to a double and then the product, kept as the double
\* m / 2^k with an odd m
CostPerMillion == 3
Million == 1000000

\* summarize_results(results)
summarize_results(rs) ==
    IF rs = <<>>
    THEN [raised |-> TRUE,
          error |-> Some([error |-> "ValueError",
                          message |-> <<"Cannot summarize empty results">>]),
          summary |-> None]
    ELSE LET total == Len(rs)
             correct == CountCorrect(rs)
             total_tokens == Sum([i \in DOMAIN rs |->
                                     rs[i].prompt_tokens + rs[i].completion_tokens])
         IN  [raised |-> FALSE,
              error |-> None,
              summary |-> Some(
                [total_problems |-> total,
                 correct |-> correct,
                 incorrect |-> total - correct,
                 accuracy |-> IF total > 0 THEN Ratio(correct, total) ELSE Ratio(0, 1),
                 by_principle |-> GroupBy(rs, [i \in DOMAIN rs |-> rs[i].principle]),
                 by_difficulty |-> GroupBy(rs, [i \in DOMAIN rs |-> rs[i].difficulty]),
                 total_tokens |-> total_tokens,
                 total_cost_estimate |->
                     FloatNormal(FloatTimes(FloatQuotient(total_tokens, Million, FALSE),
                                            CostPerMillion)),
                 avg_latency |-> Ratio(Sum([i \in DOMAIN rs |-> rs[i].latency]), Len(rs)),
                 model |-> rs[1].model])]

\* evaluator.summarize_results(results) is called
SummarizeResults ==
    /\ summary # None
    /\ summary[1].out = None
    /\ summary' = Some([summary[1] EXCEPT !.out = Some(summarize_results(summary[1].results))])
    /\ UNCHANGED <<coreVars, seedVars, generated, cycle, answered, config, lateVars>>

\* an evaluator, and the results it is about to summarize
InitSummary ==
    /\ NewMapper
    /\ NoPrompt
    /\ NoEvaluation
    /\ NoSeed /\ NoGenerated /\ NoCycle /\ NoAnswer /\ NoConfig /\ NoLate
    /\ \E rs \in SeqsUpTo(ResultInputs, MaxResults) :
          summary = Some([results |-> rs, out |-> None])

NextSummary == SummarizeResults

SpecSummary == InitSummary /\ [][NextSummary]_vars

----------------------------------------------------------------------------
(* symboval.evaluate: generate_problems, generate_prompts,                  *)
(* evaluate_problems, summarize_results in one call.                       *)

MaxProblems == 8

\* the problem a template returns when it is given the mapper: its novel
\* notation is the mapper's translation of its standard notation
WithMapper(problem, m) ==
    [problem EXCEPT !.novel_notation = Novel(Some(m), problem.standard_notation)]

\* generate_problem_set where every random.choice(principles) gives the first
\* principle, or every one the last, and every template draws low, or every
\* one high
RECURSIVE UniformSet(_, _, _, _, _)
UniformSet(n, principles, difficulty, lastPrinciple, high) ==
    IF n = 0 THEN {Returned(<<>>, <<>>)}
    ELSE UNION { UNION { IF high
                         THEN GenerateOne(sofar, principle, difficulty, HighLast)
                         ELSE GenerateOne(sofar, principle, difficulty, LowFirst) :
                            principle \in IF lastPrinciple THEN ChoiceLast(principles)
                                          ELSE ChoiceFirst(principles) } :
                    sofar \in UniformSet(n - 1, principles, difficulty, lastPrinciple, high) }

\* problems_per_principle = num_problems // len(MathematicalPrinciple.__members__)
PerPrinciple(num_problems) == FloorDiv(num_problems, Len(Principles))

\* generate_problems(num_problems, principles, difficulty, balanced,
\* use_novel_notation=True) with mapper m: what the generator returns or raises
generate_problems(num_problems, principles, difficulty, balanced, m) ==
    LET made ==
          IF balanced
          THEN UNION { { [sofar EXCEPT !.problems = shuffled] :
                            shuffled \in Shuffles(sofar.problems) } :
                          sofar \in UNION { BalancedGroups(Len(TEMPLATE_MAP),
                                                PerPrinciple(num_problems),
                                                PerPrinciple(num_problems),
                                                difficulty, high) : high \in BOOLEAN } }
          ELSE UNION { UniformSet(num_problems,
                                  IF principles = None THEN TEMPLATE_MAP ELSE principles[1],
                                  difficulty, lastPrinciple, high) :
                          lastPrinciple \in BOOLEAN, high \in BOOLEAN }
    IN  { [out EXCEPT !.problems = [i \in DOMAIN out.problems |->
                                        WithMapper(out.problems[i], m)]] : out \in made }

\* how the endpoint behaves during one evaluate call: it answers every prompt
\* with the expected answer, with another text, with no text, or it fails
RemoteBehaviours == {"answers", "wrong", "null", "raises"}

\* the ModelResponse of the endpoint to the prompt of a problem
RemoteResponse(problem, remote) ==
    [model |-> ServedModel,
     response |-> IF remote = "answers" THEN Some(problem.answer)
                  ELSE IF remote = "wrong" THEN Some(<<"n", "o">>)
                  ELSE None,
     prompt_tokens |-> 12, completion_tokens |-> 1, latency |-> 1]

\* use_balanced = (principles is None and num_problems >= len(__members__))
UseBalanced(num_problems, principles) ==
    principles = None /\ num_problems >= Len(Principles)

\* what the try statement of evaluate_problems leaves in results for the pair
\* i (from 0) when verbose is False: the result of evaluate_problem, or the
\* failed result of the except branch when the request or the reading of its
\* response raises
CycleResults(rs, problem, i, remote) ==
    IF remote = "raises"
    THEN ExceptBranch(rs, problem, i, ServiceUnavailable, FALSE, "utf-8").results
    ELSE TryBranch(rs, problem, i, RemoteResponse(problem, remote), FALSE, "utf-8").results

\* the evaluate call in progress: its arguments, the endpoint it meets, where
\* it stands, the requests and sleeps so far, and what it has made
CycleAt(call, pc_, log, out) ==
    Some([num_problems |-> call.num_problems, principles |-> call.principles,
          difficulty |-> call.difficulty, remote |-> call.remote,
          pc |-> pc_, events |-> log, out |-> out])

\* symboval.evaluate(num_problems=..., principles=..., difficulty=...,
\* api_key=<a key>, verbose=False, save_to=None) is called: the problems and
\* the prompts are generated, the evaluator is made, evaluate_problems starts
evaluate ==
    /\ cycle = None
    /\ \E num_problems \in 0..MaxProblems, principles \in PrincipleLists,
          difficulty \in Difficulties, m \in PromptMappers, remote \in RemoteBehaviours :
         \E made \in generate_problems(num_problems, principles, difficulty,
                                        UseBalanced(num_problems, principles), m) :
            cycle' = CycleAt([num_problems |-> num_problems, principles |-> principles,
                              difficulty |-> difficulty, remote |-> remote],
                             IF made.raised THEN "raised" ELSE "loop", <<>>,
                             [raised |-> made.raised,
                              error |-> IF made.raised THEN made.error ELSE None,
                              generated |-> IF made.raised THEN <<>> ELSE made.problems,
                              results |-> <<>>, summary |-> None])
    /\ UNCHANGED <<coreVars, seedVars, generated, answered, summary, config, lateVars>>

\* the next pair of the loop of evaluate_problems: the request is sent
EvaluateRequestBegins ==
    /\ cycle # None
    /\ cycle[1].pc = "loop"
    /\ Len(cycle[1].out.results) < Len(cycle[1].out.generated)
    /\ cycle' = CycleAt(cycle[1], "calling",
                        Append(cycle[1].events, <<"begin", Len(cycle[1].out.results)>>),
                        cycle[1].out)
    /\ UNCHANGED <<coreVars, seedVars, generated, answered, summary, config, lateVars>>

\* the request returns or raises: the result is appended, and the delay
\* follows unless the pair was the last
EvaluateRequestEnds ==
    /\ cycle # None
    /\ cycle[1].pc = "calling"
    /\ LET i == Len(cycle[1].out.results) IN
       cycle' = CycleAt(cycle[1],
                        IF DelayAfter(i, Len(cycle[1].out.generated)) THEN "sleep" ELSE "loop",
                        Append(cycle[1].events, <<"end", i>>),
                        [cycle[1].out EXCEPT !.results =
                            CycleResults(cycle[1].out.results, cycle[1].out.generated[i + 1],
                                         i, cycle[1].remote)])
    /\ UNCHANGED <<coreVars, seedVars, generated, answered, summary, config, lateVars>>

\* time.sleep(delay) between two pairs
EvaluateDelay ==
    /\ cycle # None
    /\ cycle[1].pc = "sleep"
    /\ cycle' = CycleAt(cycle[1], "loop",
                        Append(cycle[1].events, <<"sleep", Len(cycle[1].out.results) - 1>>),
                        cycle[1].out)
    /\ UNCHANGED <<coreVars, seedVars, generated, answered, summary, config, lateVars>>

\* evaluate_problems has returned: RuntimeError if there are no results, else
\* the summary, and evaluate returns
EvaluateReturns ==
    /\ cycle # None
    /\ cycle[1].pc = "loop"
    /\ Len(cycle[1].out.results) = Len(cycle[1].out.generated)
    /\ cycle' =
         IF cycle[1].out.results = <<>>
         THEN CycleAt(cycle[1], "raised", cycle[1].events,
                      [cycle[1].out EXCEPT
                          !.raised = TRUE,
                          !.error = Some([error |-> "RuntimeError",
                                          message |-> <<"Evaluation failed - no results returned. Check API key and network connection.">>])])
         ELSE CycleAt(cycle[1], "returned", cycle[1].events,
                      [cycle[1].out EXCEPT
                          !.summary = summarize_results(cycle[1].out.results).summary])
    /\ UNCHANGED <<coreVars, seedVars, generated, answered, summary, config, lateVars>>

InitCycle ==
    /\ NewMapper
    /\ NoPrompt
    /\ NoEvaluation
    /\ NoSeed /\ NoGenerated /\ NoCycle /\ NoAnswer /\ NoSummary /\ NoConfig /\ NoLate

NextCycle ==
    \/ evaluate
    \/ EvaluateRequestBegins
    \/ EvaluateRequestEnds
    \/ EvaluateDelay
    \/ EvaluateReturns

SpecCycle == InitCycle /\ [][NextCycle]_vars

----------------------------------------------------------------------------
(* Config: the API keys of the configuration and of the environment.       *)

MaxConfigCalls == 3

Providers == {"openrouter", "openai"}
ApiKeys == {"test-key-123", "sk-or-v1-xxx"}

\* f"{provider.upper()}_API_KEY"
EnvVarName(provider) ==
    CASE provider = "openrouter" -> "OPENROUTER_API_KEY"
      [] provider = "openai" -> "OPENAI_API_KEY"

\* what the environment holds under a name: nothing, the empty string or a key
EnvValues == {None, Some(""), Some("env-key")}

\* os.environ.get(env_var)
EnvironGet(environ, env_var) == environ[env_var]

\* a removal that leaves the dict as it is
DelKey_kept(d, k) == d

\* del d[k]
DelKey(d, k) == SelectSeq(d, LAMBDA kv : kv[1] # k)

\* self._config.get("api_keys", {}).get(provider)
StoredKey(api_keys, provider) ==
    IF api_keys # None /\ HasKey(api_keys[1], provider)
    THEN Some(Get(api_keys[1], provider)) ELSE None

\* Config.get_api_key(provider): the environment first, then the configuration
GetApiKey(c, provider) ==
    LET api_key == EnvironGet(c.environ, EnvVarName(provider))
    IN  IF api_key # None /\ api_key[1] # "" THEN api_key
        ELSE StoredKey(c.api_keys, provider)

\* the Config after a call: what it holds, and the calls made on it
ConfigAfter(c, api_keys, call) ==
    Some([c EXCEPT !.api_keys = api_keys, !.calls = Append(c.calls, call), !.got = None])

\* set_api_key(api_key, provider): stored, and saved to the file
set_api_key ==
    /\ config # None
    /\ Len(config[1].calls) < MaxConfigCalls
    /\ \E api_key \in ApiKeys, provider \in Providers :
         config' = ConfigAfter(config[1],
                       Some(DictSet(IF config[1].api_keys = None THEN <<>>
                                    ELSE config[1].api_keys[1], provider, api_key)),
                       [op |-> "set", provider |-> provider, api_key |-> Some(api_key)])
    /\ UNCHANGED <<coreVars, seedVars, generated, cycle, answered, summary, lateVars>>

\* remove_api_key(provider): deleted if it is there, and saved to the file
remove_api_key ==
    /\ config # None
    /\ Len(config[1].calls) < MaxConfigCalls
    /\ \E provider \in Providers :
         config' = ConfigAfter(config[1],
                       IF config[1].api_keys # None /\ HasKey(config[1].api_keys[1], provider)
                       THEN Some(DelKey(config[1].api_keys[1], provider))
                       ELSE config[1].api_keys,
                       [op |-> "remove", provider |-> provider, api_key |-> None])
    /\ UNCHANGED <<coreVars, seedVars, generated, cycle, answered, summary, lateVars>>

\* Config.clear_all(): _config = {}, saved to the file; no "api_keys" is left
clear_all ==
    /\ config # None
    /\ Len(config[1].calls) < MaxConfigCalls
    /\ config' = ConfigAfter(config[1], None,
                             [op |-> "clear", provider |-> "", api_key |-> None])
    /\ UNCHANGED <<coreVars, seedVars, generated, cycle, answered, summary, lateVars>>

\* get_api_key(provider)
get_api_key ==
    /\ config # None
    /\ \E provider \in Providers :
         config' = Some([config[1] EXCEPT
                            !.got = Some([provider |-> provider,
                                          api_key |-> GetApiKey(config[1], provider)])])
    /\ UNCHANGED <<coreVars, seedVars, generated, cycle, answered, summary, lateVars>>

\* _config = Config(): the configuration as the file has it (no file, or one
\* with a key saved earlier), in an environment
InitConfig ==
    /\ NewMapper
    /\ NoPrompt
    /\ NoEvaluation
    /\ NoSeed /\ NoGenerated /\ NoCycle /\ NoAnswer /\ NoSummary /\ NoLate
    /\ \E environ \in [{EnvVarName(provider) : provider \in Providers} -> EnvValues],
          api_keys \in {None, Some(<< <<"openrouter", "saved-key">> >>)} :
          config = Some([environ |-> environ, api_keys |-> api_keys, calls |-> <<>>,
                         got |-> None])

NextConfig ==
    \/ set_api_key
    \/ remove_api_key
    \/ clear_all
    \/ get_api_key

SpecConfig == InitConfig /\ [][NextConfig]_vars

----------------------------------------------------------------------------
(* DatasetConverter (symboval/generator/dataset_converter.py). A JSON value *)
(* is kept with its type and its literal text; a record is a JSON object    *)
(* with the fields it has, another JSON value, or a line that is not JSON.  *)

MaxRecords == 3

\* str.lower() on one character
LowerChar(c) ==
    CASE c = "A" -> "a"
      [] c = "B" -> "b"
      [] c = "C" -> "c"
      [] c = "D" -> "d"
      [] c = "E" -> "e"
      [] c = "F" -> "f"
      [] c = "G" -> "g"
      [] c = "H" -> "h"
      [] c = "I" -> "i"
      [] c = "J" -> "j"
      [] c = "K" -> "k"
      [] c = "L" -> "l"
      [] c = "M" -> "m"
      [] c = "N" -> "n"
      [] c = "O" -> "o"
      [] c = "P" -> "p"
      [] c = "Q" -> "q"
      [] c = "R" -> "r"
      [] c = "S" -> "s"
      [] c = "T" -> "t"
      [] c = "U" -> "u"
      [] c = "V" -> "v"
      [] c = "W" -> "w"
      [] c = "X" -> "x"
      [] c = "Y" -> "y"
      [] c = "Z" -> "z"
      [] OTHER -> c

StrLower(s) == [i \in DOMAIN s |-> LowerChar(s[i])]

\* sub in s, for two str
Contains(s, sub) ==
    \E p \in 1..(Len(s) - Len(sub) + 1) : SubSeq(s, p, p + Len(sub) - 1) = sub

\* JSON values: a string, an integer (its literal), null
JStr(text) == [type |-> "str", value |-> text]
JInt(literal) == [type |-> "int", value |-> literal]
JNull == [type |-> "null", value |-> <<>>]

\* str(value): of an integer, the text of the number parsed, so that the
\* literal -0 gives "0"
PyStr(v) ==
    IF v.type = "null" THEN <<"N", "o", "n", "e">>
    ELSE IF v.type = "int" /\ v.value = <<"-", "0">> THEN <<"0">>
    ELSE v.value

\* bool(value): '' and 0 and None are false
Truthy(v) ==
    CASE v.type = "str" -> v.value # <<>>
      [] v.type = "int" -> v.value \notin {<<"0">>, <<"-", "0">>}
      [] OTHER -> FALSE

\* a JSON object with the fields given (None: the field is absent)
JObject(question, answer, module) ==
    [kind |-> "object", question |-> question, answer |-> answer, module |-> module]
\* a JSON value that is not an object, and a line that json.loads rejects
JList == [kind |-> "list", question |-> None, answer |-> None, module |-> None]
NotJson == [kind |-> "invalid", question |-> None, answer |-> None, module |-> None]

\* problem_data.get(field, default) on an object
DataGet(problem_data, field, default) ==
    IF problem_data[field] = None THEN default ELSE problem_data[field][1]

\* _infer_principle(module)
infer_principle(module) ==
    LET module_lower == StrLower(module) IN
    IF Contains(module_lower, <<"a", "r", "i", "t", "h", "m", "e", "t", "i", "c">>)
          \/ Contains(module_lower, <<"a", "d", "d">>)
          \/ Contains(module_lower, <<"m", "u", "l">>)
    THEN "basic_arithmetic"
    ELSE IF Contains(module_lower, <<"a", "l", "g", "e", "b", "r", "a">>) THEN "multi_step"
    ELSE IF Contains(module_lower, <<"c", "o", "m", "p", "a", "r", "i", "s", "o", "n">>) THEN "transitivity"
    ELSE "basic_arithmetic"

\* len(re.findall(r'[+\-*/]', question))
CountOperations(question) ==
    Cardinality({i \in DOMAIN question : question[i] \in {"+", "-", "*", "/"}})

\* [int(n) for n in re.findall(r'\d+', question)]: the runs of digits
DigitRuns(question) ==
    {DigitsValue(SubSeq(question, i, DigitsEnd(question, i) - 1)) :
        i \in {j \in DOMAIN question :
                  IsDigit(question[j]) /\ (j = 1 \/ ~IsDigit(question[j - 1]))}}

\* _infer_difficulty(question, answer)
infer_difficulty(question) ==
    LET num_operations == CountOperations(question)
        numbers == DigitRuns(question)
        max_number == IF numbers # {}
                      THEN CHOOSE n \in numbers : \A k \in numbers : k <= n
                      ELSE 0
    IN  IF num_operations <= 1 /\ max_number < 20 THEN "easy"
        ELSE IF num_operations <= 2 /\ max_number < 100 THEN "medium"
        ELSE "hard"

\* _requires_reasoning(question, module)
RequiresReasoning(question, module) ==
    \/ Contains(StrLower(question), <<"i", "f">>)
    \/ Contains(StrLower(question), <<"t", "h", "e", "n">>)
    \/ CountOperations(question) > 1
    \/ \E mod \in {<<"a", "l", "g", "e", "b", "r", "a">>, <<"c", "a", "l", "c", "u", "l", "u", "s">>, <<"p", "o", "l", "y", "n", "o", "m", "i", "a", "l", "s">>} :
          Contains(StrLower(module), mod)

\* the Problem of a converter
ConvertedProblem(question, answer, principle, module, symbol_mapper, metadata) ==
    [question |-> question, answer |-> PyStr(answer), principle |-> principle,
     difficulty |-> infer_difficulty(question),
     requires_reasoning |-> RequiresReasoning(question, module),
     standard_notation |-> question, novel_notation |-> Novel(symbol_mapper, question),
     metadata |-> metadata]

\* parse_deepmind_problem(problem_data): Some(Problem), or None when the body
\* raised (no .get on the data, .lower() of a module that is not a str,
\* re.findall on a question that is not a str) and the except clause returned
\* None
parse_deepmind_problem(problem_data, symbol_mapper) ==
    LET question == DataGet(problem_data, "question", JStr(<<>>))
        answer == DataGet(problem_data, "answer", JStr(<<>>))
        module == DataGet(problem_data, "module", JStr(<<"u", "n", "k", "n", "o", "w", "n">>))
    IN  IF problem_data.kind # "object" \/ module.type # "str" \/ question.type # "str"
        THEN None
        ELSE Some(ConvertedProblem(question.value, answer, infer_principle(module.value),
                     module.value, symbol_mapper,
                     [source |-> "deepmind_mathematics", module |-> module.value,
                      original_data |-> problem_data]))

\* the filter raises: problem_data.get of a value that is no object, or
\* fm in module of a module that is no str
FilterRaises(problem_data) ==
    \/ problem_data.kind # "object"
    \/ DataGet(problem_data, "module", JStr(<<>>)).type # "str"

\* any(fm in module for fm in filter_modules)
FilterPasses(problem_data, filter_modules) ==
    \E i \in DOMAIN filter_modules :
        Contains(DataGet(problem_data, "module", JStr(<<>>)).value, filter_modules[i])

\* if max_problems and len(problems) >= max_problems: break
CapReached(max_problems, kept) ==
    max_problems # None /\ max_problems[1] # 0 /\ Len(kept) >= max_problems[1]

\* what a load returns, and whether "Error loading dataset" was reported
Loaded(kept, error) == [problems |-> kept, error |-> error]

\* the filter of the loop body: on to the parse, on to the next record, or an
\* exception that leaves the loop
FilterStep(problem_data, filter_modules) ==
    IF filter_modules = None \/ filter_modules[1] = <<>> THEN "parse"
    ELSE IF FilterRaises(problem_data) THEN "raise"
    ELSE IF FilterPasses(problem_data, filter_modules[1]) THEN "parse"
    ELSE "skip"

\* the loop over the lines of a .jsonl file or the list of a .json file, from
\* record i on
RECURSIVE LoadFrom(_, _, _, _, _, _)
LoadFrom(records, i, kept, max_problems, filter_modules, symbol_mapper) ==
    IF i > Len(records) \/ CapReached(max_problems, kept)
    THEN Loaded(kept, None)
    ELSE LET problem_data == records[i]
             next(ps) == LoadFrom(records, i + 1, ps, max_problems, filter_modules,
                                  symbol_mapper)
             step == FilterStep(problem_data, filter_modules)
             problem == parse_deepmind_problem(problem_data, symbol_mapper)
         IN  IF problem_data.kind = "invalid" THEN next(kept)
             ELSE IF step = "raise" THEN Loaded(kept, Some("Error loading dataset"))
             ELSE IF step = "skip" THEN next(kept)
             ELSE IF problem = None THEN next(kept)
             ELSE next(Append(kept, problem[1]))

\* The files: a .jsonl file of lines, a .json file holding a list or an object
\* with the list under "problems", and a path with no file.
DatasetFormats == {"jsonl", "json_list", "json_problems", "missing"}

\* the records of the files
RecordInputs ==
    { JObject(Some(JStr(<<"1", "+", "1">>)), Some(JStr(<<"2">>)), Some(JStr(<<"a", "d", "d">>))),
      JObject(Some(JStr(<<"2", "*", "3", "0", "-", "4">>)), Some(JInt(<<"5", "6">>)),
              Some(JStr(<<"A", "l", "g", "e", "b", "r", "a">>))),
      JObject(Some(JStr(<<"7">>)), Some(JStr(<<"7">>)), None),
      JObject(Some(JStr(<<"1">>)), Some(JStr(<<"1">>)), Some(JInt(<<"5">>))),
      JObject(Some(JInt(<<"3">>)), Some(JStr(<<"3">>)), Some(JStr(<<"a", "d", "d">>))),
      JObject(Some(JStr(<<"5", "-", "5">>)), Some(JInt(<<"-", "0">>)),
              Some(JStr(<<"a", "d", "d">>))),
      JList,
      NotJson }

\* a .json file is parsed as a whole, so none of its records is a broken line
RecordsOf(format) ==
    IF format = "jsonl" THEN RecordInputs ELSE RecordInputs \ {NotJson}

MaxProblemsArgs == {None, Some(0), Some(1), Some(2)}
FilterModulesArgs == {None, Some(<< <<"a">> >>)}

\* DatasetConverter().load_deepmind_dataset(dataset_path, max_problems,
\* filter_modules)
load_deepmind_dataset(format, records, max_problems, filter_modules) ==
    IF format = "missing" THEN Loaded(<<>>, Some("Dataset file not found"))
    ELSE LoadFrom(records, 1, <<>>, max_problems, filter_modules, None)

LoadDeepmindDataset ==
    /\ loaded = None
    /\ \E format \in DatasetFormats, max_problems \in MaxProblemsArgs,
          filter_modules \in FilterModulesArgs :
         \E records \in (IF format = "missing" THEN {<<>>}
                         ELSE UNION {[1..n -> RecordsOf(format)] : n \in 0..MaxRecords}) :
            loaded' = Some([call |-> "load_deepmind_dataset", format |-> format,
                            records |-> records, max_problems |-> max_problems,
                            filter_modules |-> filter_modules,
                            out |-> load_deepmind_dataset(format, records, max_problems,
                                                          filter_modules)])
    /\ UNCHANGED <<coreVars, seedVars, generated, cycle, answered, summary, config, client, facade>>

\* if not question or not answer: continue
SkipsRecord(question, answer) == ~Truthy(question) \/ ~Truthy(answer)

\* the loop of convert_custom_dataset from record i on; a record that is no
\* dict, or a question that is no str, raises out of the call
RECURSIVE ConvertFrom(_, _, _, _)
ConvertFrom(records, i, kept, symbol_mapper) ==
    IF i > Len(records) THEN Loaded(kept, None)
    ELSE LET problem_data == records[i]
             question == DataGet(problem_data, "question", JStr(<<>>))
             answer == DataGet(problem_data, "answer", JStr(<<>>))
         IN  IF problem_data.kind # "object" THEN Loaded(<<>>, Some("AttributeError"))
             ELSE IF SkipsRecord(question, answer)
                  THEN ConvertFrom(records, i + 1, kept, symbol_mapper)
             ELSE IF question.type # "str" THEN Loaded(<<>>, Some("TypeError"))
             ELSE ConvertFrom(records, i + 1,
                     Append(kept,
                            ConvertedProblem(question.value, answer, "basic_arithmetic",
                                             <<>>, symbol_mapper,
                                             [source |-> "custom",
                                              original_data |-> problem_data])),
                     symbol_mapper)

\* the records given to convert_custom_dataset
CustomRecords ==
    { JObject(Some(JStr(<<"1", "+", "1">>)), Some(JStr(<<"2">>)), None),
      JObject(Some(JStr(<<"5", "-", "5">>)), Some(JInt(<<"0">>)), None),
      JObject(Some(JStr(<<"2", "*", "3">>)), Some(JInt(<<"6">>)), None),
      JObject(Some(JStr(<<"3">>)), Some(JStr(<<>>)), None),
      JObject(None, Some(JStr(<<"2">>)), None),
      JObject(Some(JInt(<<"5">>)), Some(JStr(<<"5">>)), None),
      JList }

\* DatasetConverter().convert_custom_dataset(problems_data) with the default
\* keys
convert_custom_dataset(records) == ConvertFrom(records, 1, <<>>, None)

ConvertCustomDataset ==
    /\ loaded = None
    /\ \E records \in UNION {[1..n -> CustomRecords] : n \in 0..MaxRecords} :
          loaded' = Some([call |-> "convert_custom_dataset", format |-> "list",
                          records |-> records, max_problems |-> None,
                          filter_modules |-> None,
                          out |-> convert_custom_dataset(records)])
    /\ UNCHANGED <<coreVars, seedVars, generated, cycle, answered, summary, config, client, facade>>

InitDataset == NewMapper /\ NoPrompt /\ NoEvaluation /\ NoRest

NextDataset ==
    \/ LoadDeepmindDataset
    \/ ConvertCustomDataset

SpecDataset == InitDataset /\ [][NextDataset]_vars

----------------------------------------------------------------------------
(* OpenRouterClient (evaluator/openrouter_client.py): complete and         *)
(* batch_complete against an endpoint whose reply is an input.            *)

\* the prompts one batch holds
MaxPrompts == 3

\* What urlopen gives for one request: the HTTP status, the body and the time
\* the request took.  A body is text that is not JSON (with the decoder's
\* message), a JSON list, or a JSON object with optional "choices", "usage"
\* and "model".  A choice is None for {}, Some(None) for {"message": {}} and
\* Some(Some(text)) for {"message": {"content": text}}.
HttpReply(code, body, elapsed) == [status |-> code, body |-> body, elapsed |-> elapsed]
ErrorBody(text) == [kind |-> "text", text |-> text]
NotJsonBody(why) == [kind |-> "not_json", why |-> why]
JsonListBody == [kind |-> "list"]
JsonObjectBody(choices, usage, model) ==
    [kind |-> "object", choices |-> choices, usage |-> usage, model |-> model]
Usage(prompt_tokens, completion_tokens, total_tokens) ==
    [prompt_tokens |-> prompt_tokens, completion_tokens |-> completion_tokens,
     total_tokens |-> total_tokens]

\* the outcome of a call: the value it returns or the exception it raises
Returns(value) == [raised |-> FALSE, value |-> value]
Raises(error, text) == [raised |-> TRUE, error |-> error, text |-> text]

\* ModelResponse(...); error is raw_response["error"] of a placeholder
ModelResponse(model, response, usage, latency, error) ==
    [model |-> model, response |-> response,
     prompt_tokens |-> usage.prompt_tokens,
     completion_tokens |-> usage.completion_tokens,
     total_tokens |-> usage.total_tokens,
     latency |-> latency, error |-> error]

\* the three failures complete reports with a RuntimeError
ApiError(code, text) ==
    Raises("RuntimeError", <<"OpenRouter API error: ">> \o Str(code) \o <<" - ">> \o text)
ParseError(why) ==
    Raises("RuntimeError", <<"Failed to parse OpenRouter response: ">> \o why)
FormatError(key) ==
    Raises("RuntimeError", <<"Unexpected response format from OpenRouter: ", "'", key, "'">>)

\* OpenRouterClient.complete(prompt, model) when the endpoint answers reply:
\* a status outside 2xx is the HTTPError urlopen raises; the body is decoded,
\* data["choices"][0] and choice["message"]["content"] are read in this order,
\* and only HTTPError, JSONDecodeError and KeyError are caught.
complete(text, model, reply) ==
    LET body == reply.body IN
    IF reply.status < 200 \/ reply.status > 299
      THEN ApiError(reply.status, body.text)
    ELSE IF body.kind = "not_json" THEN ParseError(body.why)
    ELSE IF body.kind = "list"
      THEN Raises("TypeError", <<"list indices must be integers or slices, not str">>)
    ELSE IF body.choices = None THEN FormatError("choices")
    ELSE IF body.choices[1] = <<>>
      THEN Raises("IndexError", <<"list index out of range">>)
    ELSE LET choice == body.choices[1][1] IN
         IF choice = None THEN FormatError("message")
         ELSE IF choice[1] = None THEN FormatError("content")
         ELSE Returns(ModelResponse(
                  IF body.model = None THEN model ELSE body.model[1],
                  choice[1][1],
                  IF body.usage = None THEN Usage(0, 0, 0) ELSE body.usage[1],
                  reply.elapsed, None))

\* the ModelResponse batch_complete appends for a request that raised
FailedResponse(model, e) == ModelResponse(model, <<>>, Usage(0, 0, 0), 0, Some(e.text))

\* f"Error processing prompt {i+1}/{len(prompts)}: {e}", i counted from 1 here
BatchErrorLine(i, n, e) ==
    <<"Error processing prompt ">> \o Str(i) \o <<"/">> \o Str(n) \o <<": ">> \o e.text

\* the try statement of batch_complete for prompt i of n once complete has
\* ended with made: the response is appended and the delay follows unless
\* the prompt is the last; or, in the except branch, the error is printed and
\* the placeholder appended, with no delay.  A print that raises leaves the
\* call.
BatchStep(responses, model, made, i, n, encoding) ==
    IF made.raised
    THEN IF PrintRaises(BatchErrorLine(i, n, made), encoding)
         THEN [responses |-> responses, pc |-> "raised"]
         ELSE [responses |-> Append(responses, FailedResponse(model, made)), pc |-> "loop"]
    ELSE [responses |-> Append(responses, made.value),
          pc |-> IF i < n THEN "sleep" ELSE "loop"]

\* the replies of the endpoint
Replies ==
    { HttpReply(200, JsonObjectBody(Some(<< Some(Some(<<"4", "2">>)) >>),
                                    Some(Usage(12, 3, 15)), Some(ServedModel)), 2),
      HttpReply(200, JsonObjectBody(Some(<< Some(Some(<<"7">>)), Some(Some(<<"8">>)) >>),
                                    None, None), 1),
      HttpReply(429, ErrorBody(<<"rate limited">>), 1),
      HttpReply(500, ErrorBody(<<>>), 1),
      HttpReply(503, ErrorBody(<<"e acute">>), 1),
      HttpReply(200, NotJsonBody(<<"Expecting value: line 1 column 1 (char 0)">>), 1),
      HttpReply(200, JsonListBody, 1),
      HttpReply(200, JsonObjectBody(None, None, None), 1),
      HttpReply(200, JsonObjectBody(Some(<<>>), None, Some(ServedModel)), 1),
      HttpReply(200, JsonObjectBody(Some(<< None >>), None, None), 1),
      HttpReply(200, JsonObjectBody(Some(<< Some(None) >>), None, None), 1) }

\* prompt number i of a batch
PromptText(i) == <<"p">> \o Str(i)

\* client.complete(prompt)
Complete ==
    /\ client = None
    /\ \E reply \in Replies :
          client' = Some([call |-> "complete", prompts |-> <<PromptText(1)>>,
                          replies |-> <<reply>>,
                          out |-> complete(PromptText(1), RequestedModel, reply)])
    /\ UNCHANGED <<coreVars, seedVars, generated, cycle, answered, summary, config, loaded, facade>>

\* the batch_complete call in progress: where it stands, the requests sent
\* and the sleeps taken so far, and the responses so far
BatchAt(call, pc_, log, responses) ==
    Some([call |-> "batch_complete", prompts |-> call.prompts, replies |-> call.replies,
          stdout |-> call.stdout, pc |-> pc_,
          out |-> [responses |-> responses, events |-> log]])

\* client.batch_complete(prompts) is called, on a stdout of either encoding:
\* responses = []
BatchComplete ==
    /\ client = None
    /\ \E n \in 0..MaxPrompts, encoding \in StdoutEncodings :
         \E replies \in [1..n -> Replies] :
            client' = BatchAt([prompts |-> [i \in 1..n |-> PromptText(i)],
                               replies |-> replies, stdout |-> encoding],
                              "loop", <<>>, <<>>)
    /\ UNCHANGED <<coreVars, seedVars, generated, cycle, answered, summary, config, loaded, facade>>

\* the next prompt of the loop: self.complete sends its request
BatchRequestBegins ==
    /\ client # None
    /\ client[1].call = "batch_complete"
    /\ client[1].pc = "loop"
    /\ Len(client[1].out.responses) < Len(client[1].prompts)
    /\ client' = BatchAt(client[1], "calling",
                         Append(client[1].out.events,
                                <<"request", Len(client[1].out.responses) + 1>>),
                         client[1].out.responses)
    /\ UNCHANGED <<coreVars, seedVars, generated, cycle, answered, summary, config, loaded, facade>>

\* the request ends: complete returns or raises, and the try statement is
\* left
BatchRequestEnds ==
    /\ client # None
    /\ client[1].call = "batch_complete"
    /\ client[1].pc = "calling"
    /\ LET i == Len(client[1].out.responses) + 1
           after == BatchStep(client[1].out.responses, RequestedModel,
                              complete(client[1].prompts[i], RequestedModel,
                                       client[1].replies[i]),
                              i, Len(client[1].prompts), client[1].stdout)
       IN  client' = BatchAt(client[1], after.pc, client[1].out.events, after.responses)
    /\ UNCHANGED <<coreVars, seedVars, generated, cycle, answered, summary, config, loaded, facade>>

\* time.sleep(delay), after a request that succeeded and was not the last
BatchDelay ==
    /\ client # None
    /\ client[1].call = "batch_complete"
    /\ client[1].pc = "sleep"
    /\ client' = BatchAt(client[1], "loop",
                         Append(client[1].out.events,
                                <<"sleep", Len(client[1].out.responses)>>),
                         client[1].out.responses)
    /\ UNCHANGED <<coreVars, seedVars, generated, cycle, answered, summary, config, loaded, facade>>

\* return responses
BatchReturns ==
    /\ client # None
    /\ client[1].call = "batch_complete"
    /\ client[1].pc = "loop"
    /\ Len(client[1].out.responses) = Len(client[1].prompts)
    /\ client' = BatchAt(client[1], "returned", client[1].out.events,
                         client[1].out.responses)
    /\ UNCHANGED <<coreVars, seedVars, generated, cycle, answered, summary, config, loaded, facade>>

InitClient == NewMapper /\ NoPrompt /\ NoEvaluation /\ NoRest

NextClient ==
    \/ Complete
    \/ BatchComplete
    \/ BatchRequestBegins
    \/ BatchRequestEnds
    \/ BatchDelay
    \/ BatchReturns

SpecClient == InitClient /\ [][NextClient]_vars

----------------------------------------------------------------------------
(* The functions of the package (symboval/__init__.py): generate_problem   *)
(* and generate_problems build a mapper and render the problems with it;   *)
(* generate_prompt, generate_prompts and evaluate build a mapper again for *)
(* the legend.  Every mapper is SymbolMapper(seed=seed), and all draw from *)
(* the one generator of the interpreter.                                   *)

\* the seed argument of a call
SeedArgs == {None} \cup {Some(seed) : seed \in Seeds}

\* SymbolMapper(seed=seed) / ProblemGenerator(seed=seed):
\* if seed is not None: random.seed(seed)
SeededBy(rng, seed) == IF seed = None THEN NotSeeded(rng, seed) ELSE Seeded(rng, seed[1])

\* the draws of one call are what the generator gives: they agree with what
\* it is known to give, and with each other
Agree(draws) ==
    /\ \A i \in DOMAIN draws : Given(draws[i].rng, draws[i].request) \subseteq {draws[i].outcome}
    /\ \A i, j \in DOMAIN draws :
          (draws[i].rng = draws[j].rng /\ draws[i].request = draws[j].request)
             => draws[i].outcome = draws[j].outcome

\* mapper.create_complete_mapping(numbers, operators, relations) from mapper m
\* with the generator in state rng: the mapper, the generator after the
\* calls and the draws made (the pools hold enough glyphs for these lists)
RECURSIVE SeededComplete(_, _, _, _)
SeededComplete(m, rng, steps, draws) ==
    IF steps = <<>> THEN {[m |-> m, rng |-> rng, draws |-> draws]}
    ELSE LET tokens == Head(steps).tokens
             avail == Available(Head(steps).pool, m.used_symbols)
             request == SampleRequest(avail, Len(tokens))
         IN  UNION { SeededComplete(Created(m, tokens, selected), Advance(rng, request),
                                    Tail(steps),
                                    Append(draws,
                                           [rng |-> rng, request |-> request,
                                            outcome |-> [raised |-> FALSE,
                                                         selected |-> selected,
                                                         problem |-> None]])) :
                        selected \in Sample(avail, Len(tokens)) }

\* mapper = SymbolMapper(seed=seed); mapper.create_complete_mapping(...)
SeededMapper(rng, seed) ==
    SeededComplete(EmptyMapper, SeededBy(rng, seed), PromptMapperSteps, <<>>)

\* generate_problem(seed=seed) / generate_problems(seed=seed) with the
\* generator in state rng: the mapper, then ProblemGenerator(seed=seed) and a
\* template's question, rendered with the mapper
GenerateProblemOutcomes(rng, seed) ==
    UNION { LET g == SeededBy(built.rng, seed)
                request == TemplateRequest("basic_arithmetic", "medium")
            IN  { [problem |-> [standard_notation |-> std_q,
                                novel_notation |-> Novel(Some(built.m), std_q)],
                   m |-> built.m,
                   rng |-> Advance(g, request),
                   draws |-> Append(built.draws,
                                    [rng |-> g, request |-> request,
                                     outcome |-> [raised |-> FALSE, selected |-> <<>>,
                                                  problem |-> Some(std_q)]])] :
                     std_q \in StandardQuestions } :
               built \in SeededMapper(rng, seed) }

\* generate_prompt(problem, num_examples, seed=seed) and the body of the loop
\* of generate_prompts: a mapper of its own, the glyphs of the novel notation
\* that this mapper knows, the example section
GeneratePromptOutcomes(rng, seed, problem, num_examples) ==
    UNION { { [m |-> built.m, legend |-> section, draws |-> built.draws] :
                 section \in build_example_section(built.m, num_examples,
                                 ExtractSymbols(built.m, problem.novel_notation)) } :
               built \in SeededMapper(rng, seed) }

\* what is kept of the calls: the function and the seed that made the problem,
\* the problem and the mapper that rendered it, the generator after the call;
\* the function and the seed that made the prompt, its mapper and its legend
Rendered(call, seed, out) ==
    [problem_call |-> call, problem_seed |-> seed, problem |-> out.problem,
     rendered_by |-> out.m, rng |-> out.rng,
     prompt_call |-> "", prompt_seed |-> None, num_examples |-> 0,
     builder |-> EmptyMapper, legend |-> None]
Prompted(made, call, seed, num_examples, out) ==
    [made EXCEPT !.prompt_call = call, !.prompt_seed = seed,
                 !.num_examples = num_examples, !.builder = out.m,
                 !.legend = Some(out.legend)]

\* P = generate_problem(seed=seed), or P = generate_problems(..., seed=seed)[i],
\* in a new interpreter
ApiGenerateProblem ==
    /\ facade = None
    /\ \E call \in {"generate_problem", "generate_problems"}, seed \in SeedArgs :
         \E out \in GenerateProblemOutcomes(FreshGenerator(1), seed) :
            /\ Agree(out.draws)
            /\ rngstream' = rngstream \cup Range(out.draws)
            /\ facade' = Some(Rendered(call, seed, out))
    /\ UNCHANGED <<coreVars, run, generated, cycle, answered, summary, config, loaded, client>>

\* generate_prompt(problem=P, seed=seed), or generate_prompts(problems=[P, ...],
\* seed=seed)[i], next in the same interpreter
ApiGeneratePrompt ==
    /\ facade # None
    /\ facade[1].legend = None
    /\ \E call \in {"generate_prompt", "generate_prompts"}, seed \in SeedArgs,
          num_examples \in 0..MaxExamples :
         \E out \in GeneratePromptOutcomes(facade[1].rng, seed, facade[1].problem,
                                           num_examples) :
            /\ Agree(out.draws)
            /\ rngstream' = rngstream \cup Range(out.draws)
            /\ facade' = Some(Prompted(facade[1], call, seed, num_examples, out))
    /\ UNCHANGED <<coreVars, run, generated, cycle, answered, summary, config, loaded, client>>

\* evaluate(seed=seed, num_examples=num_examples) in a new interpreter:
\* generate_problems and generate_prompts with the one seed argument
ApiEvaluate ==
    /\ facade = None
    /\ \E seed \in SeedArgs, num_examples \in 0..MaxExamples :
         \E made \in GenerateProblemOutcomes(FreshGenerator(1), seed) :
            \E out \in GeneratePromptOutcomes(made.rng, seed, made.problem, num_examples) :
               /\ Agree(made.draws \o out.draws)
               /\ rngstream' = rngstream \cup Range(made.draws) \cup Range(out.draws)
               /\ facade' = Some(Prompted(Rendered("evaluate", seed, made), "evaluate",
                                          seed, num_examples, out))
    /\ UNCHANGED <<coreVars, run, generated, cycle, answered, summary, config, loaded, client>>

InitApi == NewMapper /\ NoPrompt /\ NoEvaluation /\ NoRest

NextApi ==
    \/ ApiGenerateProblem
    \/ ApiGeneratePrompt
    \/ ApiEvaluate

SpecApi == InitApi /\ [][NextApi]_vars

----------------------------------------------------------------------------
(* Claims on the symbol mapper, under SpecMapper.                          *)

\* C6: after any sequence of create_*_mapping calls no glyph is assigned to
\* two different standard tokens: the forward mapping is injective.
C6_NoGlyphForTwoTokens ==
    \A i, j \in DOMAIN mappings :
        mappings[i][2] = mappings[j][2] => mappings[i][1] = mappings[j][1]

\* C7: after any sequence of create_*_mapping calls the forward and the reverse
\* table are exact inverses: reverse_mappings[g] = t iff mappings[t] = g.
C7_ExactInverses ==
    /\ \A i \in DOMAIN mappings :
          /\ HasKey(reverse_mappings, mappings[i][2])
          /\ Get(reverse_mappings, mappings[i][2]) = mappings[i][1]
    /\ \A i \in DOMAIN reverse_mappings :
          /\ HasKey(mappings, reverse_mappings[i][2])
          /\ Get(mappings, reverse_mappings[i][2]) = reverse_mappings[i][1]

\* C8: once a token has a glyph, no later create_*_mapping call changes it.
C8_NeverOverwritten ==
    [][\A t \in Keys(mappings) :
          HasKey(mappings', t) /\ Get(mappings', t) = Get(mappings, t)]_vars

\* C9: a create_*_mapping call raises exactly when the pool holds fewer glyphs
\* not yet consumed than tokens are requested; otherwise every requested token
\* has a glyph that was unused before the call and is consumed after it.
C9_RaisesIffPoolTooSmall ==
    last # None =>
        LET c == last[1] IN
        /\ c.raised <=> Cardinality(Range(c.pool) \ c.used_before) < Len(c.tokens)
        /\ ~c.raised =>
              \A i \in DOMAIN c.tokens :
                  /\ HasKey(mappings, c.tokens[i])
                  /\ Get(mappings, c.tokens[i]) \notin c.used_before
                  /\ Get(mappings, c.tokens[i]) \in used_symbols

\* C10, as claimed: in any mapper state reached through create_*_mapping calls,
\* reverse_translate(translate_expression(expr)) = expr for every expression
\* built from mapped tokens.
C10_RoundTripAnyPool ==
    (xl # None /\ xl[1].back # None) => xl[1].back[1] = xl[1].expr

DefaultGlyphs ==
    Range(UNICODE_NUMBERS) \cup Range(UNICODE_OPERATORS)
        \cup Range(UNICODE_RELATIONS) \cup Range(UNICODE_VARIABLES)

\* every glyph this mapper has assigned came from a default pool
OnlyDefaultPools == Keys(reverse_mappings) \subseteq DefaultGlyphs

\* no mapped token holds a glyph of the default pools
NoGlyphInTokens ==
    \A t \in Keys(mappings) : \A i \in DOMAIN t : <<t[i]>> \notin DefaultGlyphs

\* C10, amended: in any mapper state reached through create_*_mapping calls
\* that took their glyphs from the default pools, for tokens that hold no
\* glyph of those pools, reverse_translate(translate_expression(expr)) = expr
\* for every expression built from mapped tokens.
C10_RoundTripDefaultPools ==
    (OnlyDefaultPools /\ NoGlyphInTokens /\ xl # None /\ xl[1].back # None)
        => xl[1].back[1] = xl[1].expr

\* a token mapped twice, a two-token expression translated and reversed
C10_Witness ==
    /\ OnlyDefaultPools
    /\ NoGlyphInTokens
    /\ Len(reverse_mappings) > Len(mappings)
    /\ Len(mappings) >= 2
    /\ xl # None
    /\ xl[1].back = Some(xl[1].expr)
    /\ Len(xl[1].expr) >= 2
    /\ \A i \in DOMAIN xl[1].novel : <<xl[1].novel[i]>> \in DefaultGlyphs

\* the mapped tokens of two or more characters whose characters are all
\* mapped tokens themselves
SplittableTokens ==
    {t \in Keys(mappings) : Len(t) >= 2 /\ \A i \in DOMAIN t : HasKey(mappings, <<t[i]>>)}

\* C11, as claimed: when a multi-character token and its characters are all
\* mapped, translate_expression replaces an occurrence of the token that
\* stands alone by the token's own glyph, not by the glyphs of its characters.
C11_LongestTokenFirstAnyPool ==
    (xl # None /\ xl[1].expr \in SplittableTokens)
        => xl[1].novel = Get(mappings, xl[1].expr)

\* C11, amended: the same, for mappers whose glyphs came from the default
\* pools and whose tokens hold no glyph of those pools.
C11_LongestTokenFirstDefaultPools ==
    (OnlyDefaultPools /\ NoGlyphInTokens /\ xl # None /\ xl[1].expr \in SplittableTokens)
        => xl[1].novel = Get(mappings, xl[1].expr)

\* "1", "0" and then "10" mapped from the default pool, "10" translated to the
\* one glyph of "10"
C11_Witness ==
    /\ OnlyDefaultPools
    /\ NoGlyphInTokens
    /\ Keys(mappings) = {<<"1">>, <<"0">>, <<"1", "0">>}
    /\ mappings[Len(mappings)][1] = <<"1", "0">>
    /\ xl # None
    /\ xl[1].expr = <<"1", "0">>
    /\ xl[1].novel = Get(mappings, <<"1", "0">>)
    /\ Len(xl[1].novel) = 1

----------------------------------------------------------------------------
(* Claims on the calls that raise, under SpecCreate.                       *)

\* a step that is a create_*_mapping or create_complete_mapping call which
\* raised the not-enough-symbols error
RaisingCall == ncalls' # ncalls /\ last' # None /\ last'[1].raised

\* the place of a category in the order of create_complete_mapping
CategoryRank(op) ==
    CASE op = "number" -> 1 [] op = "operator" -> 2 [] op = "relation" -> 3
      [] op = "variable" -> 4

\* the category whose lists name the token
TokenCategory(token) ==
    IF IsDigitString(token) THEN "number"
    ELSE IF token \in {<<"+">>, <<"-">>} THEN "operator"
    ELSE IF token = <<"=">> THEN "relation"
    ELSE "variable"

\* C29: a create_*_mapping call that raises the not-enough-symbols error
\* leaves mappings, reverse_mappings and used_symbols as they were before the
\* call, and so does a create_complete_mapping call that raises in any of its
\* categories.
C29_RaisingCallChangesNothing ==
    [][RaisingCall => UNCHANGED <<mappings, reverse_mappings, used_symbols>>]_vars

\* C29, amended: a single create_*_mapping call that raises changes nothing; a
\* create_complete_mapping call that raises keeps what the categories before
\* the failing one mapped, and the failing category and those after it add
\* nothing, so the mapper is unchanged exactly when no category before the
\* failing one was asked for.
C29_RaisingCallKeepsEarlierCategories ==
    [][RaisingCall =>
         /\ used_symbols' = last'[1].used_before
         /\ (create_number_mapping \/ create_operator_mapping
                \/ create_relation_mapping \/ create_variable_mapping)
               => UNCHANGED <<mappings, reverse_mappings, used_symbols>>
         /\ create_complete_mapping =>
               /\ \A i \in DOMAIN mappings' :
                     CategoryRank(TokenCategory(mappings'[i][1]))
                        < CategoryRank(last'[1].op)
               /\ Values(mappings') = used_symbols'
               /\ Keys(reverse_mappings') = used_symbols'
               /\ (last'[1].op = "number"
                     => UNCHANGED <<mappings, reverse_mappings, used_symbols>>)]_vars

\* create_complete_mapping mapped three numbers and raised for its operators
C29_Witness ==
    /\ last # None
    /\ last[1].raised
    /\ last[1].op = "operator"
    /\ ncalls = 2
    /\ Len(mappings) = 3
    /\ used_symbols = Range(UNICODE_NUMBERS)

----------------------------------------------------------------------------
(* Claims on evaluate_problems, under SpecEval.                            *)

EqualLengths == Len(problems) = Len(prompts)

\* the j-th call failed: the remote call raised, or it returned a response
\* evaluate_problem cannot read
PairFailed(j) ==
    \/ outcomes[j].raised
    \/ outcomes[j].response[1].response = None

\* no print of the call can raise: it prints nothing, or stdout encodes every
\* character
PrintsSucceed == ~verbose \/ stdout = "utf-8"

\* C1: for equal-length lists of n pairs and any pattern of remote-call
\* outcomes, evaluate_problems returns exactly n results: it does not raise,
\* it cannot stop before it returns, every call that ended left one result,
\* and the list it returns has one entry per pair.
C1_FullLengthResults ==
    EqualLengths =>
        /\ pc # "raised"
        /\ pc # "returned" => ENABLED NextEval
        /\ Len(results) = Len(outcomes)
        /\ pc = "returned" => Len(results) = Len(problems)

\* C1, as the code has it: the list is full-length when no print can raise.
C1_FullLengthWhenPrintsSucceed ==
    (EqualLengths /\ PrintsSucceed) =>
        /\ pc # "raised"
        /\ Len(results) = Len(outcomes)
        /\ pc = "returned" => Len(results) = Len(problems)

\* C2: the j-th result is the result of the j-th pair; a pair whose remote
\* call raises yields a result with is_correct = FALSE, no extracted answer,
\* zero token counts and latency and a response text that carries the error;
\* every other pair's result is what that pair and its response give when no
\* pair fails.
C2_FailedPairsAreIsolated ==
    /\ pc \in {"returned", "raised"} => Len(outcomes) <= Len(results)
    /\ \A j \in DOMAIN results :
          /\ j \in DOMAIN outcomes
          /\ outcomes[j].raised =>
                /\ results[j].is_correct = FALSE
                /\ results[j].extracted_answer = None
                /\ results[j].prompt_tokens = 0
                /\ results[j].completion_tokens = 0
                /\ results[j].latency = 0
                /\ results[j].model_response = ErrorText(outcomes[j].error)
          /\ ~PairFailed(j) =>
                LET response == outcomes[j].response[1] IN
                /\ results[j].model_response = response.response[1]
                /\ results[j].extracted_answer = extract_answer(response.response[1])
                /\ results[j].is_correct =
                      check_answer(results[j].extracted_answer, problems[j].answer)
                /\ results[j].prompt_tokens = response.prompt_tokens
                /\ results[j].completion_tokens = response.completion_tokens
                /\ results[j].latency = response.latency
                /\ results[j].model = response.model

\* C2, as the code has it: the statement holds when no print can raise.
C2_IsolatedWhenPrintsSucceed == PrintsSucceed => C2_FailedPairsAreIsolated

\* the remote calls begun and ended, without the delays
CallEvents == SelectSeq(events, LAMBDA e : e[1] # "sleep")

\* C3: the i-th result belongs to the i-th pair (problem_id = i, that
\* problem's expected answer, principle and difficulty), and the remote calls
\* run one after the other in input order: call i + 1 begins only after call i
\* has ended.
C3_ResultsInInputOrder ==
    /\ \A j \in DOMAIN results :
          /\ j \in DOMAIN problems
          /\ results[j].problem_id = j - 1
          /\ results[j].expected_answer = problems[j].answer
          /\ results[j].principle = problems[j].principle
          /\ results[j].difficulty = problems[j].difficulty
    /\ \A k \in DOMAIN CallEvents :
          CallEvents[k] = <<IF k % 2 = 1 THEN "begin" ELSE "end", (k - 1) \div 2>>

\* C3, as the code has it: the results are in the order of the pairs, each
\* pair leaving one result or two, and the calls run one after the other.
C3_ResultsInNondecreasingOrder ==
    /\ \A j \in DOMAIN results :
          /\ results[j].problem_id + 1 \in DOMAIN problems
          /\ results[j].expected_answer = problems[results[j].problem_id + 1].answer
          /\ j > 1 => results[j].problem_id - results[j - 1].problem_id \in {0, 1}
          /\ Cardinality({k \in DOMAIN results :
                             results[k].problem_id = results[j].problem_id}) <= 2
    /\ \A k \in DOMAIN CallEvents :
          CallEvents[k] = <<IF k % 2 = 1 THEN "begin" ELSE "end", (k - 1) \div 2>>

\* what a run over n pairs does: call i begins, ends, and a delay follows
\* unless the pair is the last
ExpectedEvent(k) ==
    <<CASE (k - 1) % 3 = 0 -> "begin" [] (k - 1) % 3 = 1 -> "end" [] OTHER -> "sleep",
      (k - 1) \div 3>>

----------------------------------------------------------------------------
(* Claims on the legend of a prompt, under SpecPrompt.                     *)

\* text g occurs in text t
Occurs(g, t) == \E p \in 1..Len(t) : IsPrefix(g, SubSeq(t, p, Len(t)))

\* the glyphs of the problem's novel notation that are keys of the reverse
\* table of the mapper the prompt was built with
GlyphsOfProblem ==
    {<<prob[1].novel_notation[i]>> : i \in DOMAIN prob[1].novel_notation}
        \cap Keys(prompt[1].reverse_mappings)

\* every such glyph occurs in the example section of the prompt
LegendCoversProblem ==
    /\ prompt[1].legend # None
    /\ \A g \in GlyphsOfProblem : Occurs(g, prompt[1].legend[1])

\* C5, as claimed: for any requested example count, 0 included, every glyph
\* of the problem's novel notation that is a key of the mapper's reverse
\* table appears in the legend of the prompt built for the problem.
C5_LegendCoversAnyCount ==
    (prompt # None /\ prompt[1].use_novel_notation /\ GlyphsOfProblem # {})
        => LegendCoversProblem

\* C5, amended: for any requested example count of at least 1 and a prompt
\* built in novel notation, every glyph of the problem's novel notation that
\* is a key of the mapper's reverse table appears in the legend.
C5_LegendCoversFromOneExample ==
    (prompt # None /\ prompt[1].num_examples >= 1 /\ prompt[1].use_novel_notation)
        => LegendCoversProblem

\* one example asked for, two different glyphs in the problem, both in the legend
C5_Witness ==
    /\ prompt # None
    /\ prompt[1].num_examples = 1
    /\ prompt[1].use_novel_notation
    /\ Cardinality(GlyphsOfProblem) >= 2
    /\ LegendCoversProblem

----------------------------------------------------------------------------
(* Claims on build_example_section, under SpecLegend.                      *)

\* the lines of a text, each ended by a newline
RECURSIVE SplitLines(_)
SplitLines(text) ==
    IF text = <<>> THEN <<>>
    ELSE LET k == CHOOSE i \in DOMAIN text :
                     text[i] = "\n" /\ \A j \in 1..(i - 1) : text[j] # "\n"
         IN  <<SubSeq(text, 1, k - 1)>> \o SplitLines(SubSeq(text, k + 1, Len(text)))

\* the <<glyph, meaning>> of a line "  <glyph> represents <meaning>"
EntryOfLine(line) ==
    LET k == CHOOSE i \in DOMAIN line : line[i] = " represents " IN
    <<SubSeq(line, 2, k - 1), SubSeq(line, k + 1, Len(line))>>

\* the entries of the legend lines of an example section, in the order of the
\* text: the lines between its heading and its closing sentence
LegendEntries(section) ==
    LET lines == SplitLines(SubSeq(section, 3, Len(section) - 1)) IN
    [i \in DOMAIN lines |-> EntryOfLine(lines[i])]

Max2(a, b) == IF a > b THEN a ELSE b

\* the legend of the call has max(|R|, min(n, mapped tokens)) lines, one for
\* each required glyph, the others entries of the mapping, and no entry and no
\* standard token twice
LegendAsSpecified(call) ==
    LET entries == LegendEntries(call.legend[1])
        R == call.required_symbols
    IN  /\ Len(entries) = Max2(Cardinality(R), Min2(call.num_examples, Len(call.mappings)))
        /\ \A g \in R : \E i \in DOMAIN entries :
               entries[i] = <<g, Meaning(Get(call.reverse_mappings, g))>>
        /\ \A i \in DOMAIN entries :
               \/ entries[i][1] \in R
               \/ \E j \in DOMAIN call.mappings :
                     entries[i] = <<call.mappings[j][2], Meaning(call.mappings[j][1])>>
        /\ \A i, j \in DOMAIN entries :
               i # j => entries[i] # entries[j] /\ entries[i][2] # entries[j][2]

\* a direct build_example_section call with a positive count and required
\* glyphs that are glyphs of the mapper
SectionCalls ==
    IF prompt # None /\ prompt[1].variant = "build_example_section"
          /\ prompt[1].num_examples > 0
          /\ prompt[1].required_symbols \subseteq Keys(prompt[1].reverse_mappings)
    THEN {prompt[1]} ELSE {}

\* C26: build_example_section with a positive count n and required glyphs R
\* of the mapper gives a legend of exactly max(|R|, min(n, mapped tokens))
\* lines: every required entry and, when n > |R|, further entries of the
\* mapping drawn without replacement; no entry and no standard token is in
\* the legend twice.
C26_LegendSize ==
    \A call \in SectionCalls : LegendAsSpecified(call)

\* the two tables of the call's mapper are inverses of each other
TablesAreInverses(call) ==
    /\ \A i \in DOMAIN call.mappings :
          /\ HasKey(call.reverse_mappings, call.mappings[i][2])
          /\ Get(call.reverse_mappings, call.mappings[i][2]) = call.mappings[i][1]
    /\ \A i \in DOMAIN call.reverse_mappings :
          /\ HasKey(call.mappings, call.reverse_mappings[i][2])
          /\ Get(call.mappings, call.reverse_mappings[i][2]) = call.reverse_mappings[i][1]

\* the legend is as specified whenever the mapper's tables are inverses of
\* each other
C26_LegendSizeWhenInverse ==
    \A call \in SectionCalls : TablesAreInverses(call) => LegendAsSpecified(call)

\* a mapper with three tokens, one required glyph, three lines asked for
C26_Witness ==
    \E call \in SectionCalls :
        /\ TablesAreInverses(call)
        /\ Len(call.mappings) = 3
        /\ Cardinality(call.required_symbols) = 1
        /\ call.num_examples = 3
        /\ Len(LegendEntries(call.legend[1])) = 3

----------------------------------------------------------------------------
(* Claims on seeding, under SpecSeed.                                      *)

\* the two runs construct the same kind of instance with the same seed and
\* have made the same calls on it
SameSeedSameCalls ==
    /\ run[1].kind # ""
    /\ run[1].kind = run[2].kind
    /\ run[1].seed = run[2].seed
    /\ run[1].calls = run[2].calls

SameResults == run[1].outs = run[2].outs /\ run[1].m = run[2].m

\* C12: two runs that construct a mapper or a generator with the same integer
\* seed and then make the same calls, and nothing else that draws, get the
\* same glyph assignments and the same problems.
C12_SameSeedSameResults ==
    (SameSeedSameCalls /\ ~run[2].disturbed) => SameResults

\* two runs with the same seed, two calls each, the same results
C12_Witness ==
    /\ SameSeedSameCalls
    /\ ~run[2].disturbed
    /\ Len(run[1].calls) = 2
    /\ ~run[1].outs[2].raised
    /\ SameResults

\* C13: what a seeded instance gives depends on its own seed and its own calls
\* only, also when another instance is constructed or used between its calls.
C13_NoSharedState ==
    SameSeedSameCalls => SameResults

----------------------------------------------------------------------------
(* Claims on ProblemGenerator, under SpecGenerator.                        *)

\* the principles declared without a template, and those with one
WithoutTemplate == {"transitivity", "inverse"}
WithTemplate == Range(Principles) \ WithoutTemplate

\* how many problems of the list are of the principle
RECURSIVE CountPrinciple(_, _)
CountPrinciple(ps, principle) ==
    IF ps = <<>> THEN 0
    ELSE (IF Head(ps).principle = principle THEN 1 ELSE 0)
            + CountPrinciple(Tail(ps), principle)

\* how many times x is in the list
RECURSIVE CountOf(_, _)
CountOf(ps, x) ==
    IF ps = <<>> THEN 0
    ELSE (IF Head(ps) = x THEN 1 ELSE 0) + CountOf(Tail(ps), x)

\* C14: a problem asked for a principle without a template raises the
\* no-template error, in generate_problem and in generate_problem_set when the
\* principle is drawn from the list; no problem of another template is given
\* in its place.
C14_NoTemplateRaises ==
    generated # None =>
        LET g == generated[1] IN
        /\ (g.call = "generate_problem" /\ g.principle \in WithoutTemplate) =>
              /\ g.out.raised
              /\ g.out.error = Some([error |-> "ValueError",
                     message |-> <<"No template found for principle: ",
                                   PrincipleName(g.principle)>>])
        /\ (\E i \in DOMAIN g.out.drawn : g.out.drawn[i] \in WithoutTemplate) =>
              /\ g.out.raised
              /\ g.out.problems = <<>>
        /\ g.call \in {"generate_problem", "generate_problem_set"} =>
              \A i \in DOMAIN g.out.problems :
                  g.out.problems[i].principle = g.out.drawn[i]

\* generate_problem_set over [identity, inverse] drew identity, then inverse,
\* and raised
C14_Witness ==
    /\ generated # None
    /\ generated[1].call = "generate_problem_set"
    /\ generated[1].principles = Some(<<"identity", "inverse">>)
    /\ generated[1].out.drawn = <<"identity", "inverse">>
    /\ generated[1].out.raised

\* C15: generate_balanced_set(K) returns exactly K problems of each principle
\* that has a template and no others, and the result is a permutation of the
\* concatenated per-principle groups.
C15_BalancedSet ==
    (generated # None /\ generated[1].call = "generate_balanced_set") =>
        LET g == generated[1]
            K == g.n
        IN  /\ ~g.out.raised
            /\ \A principle \in WithTemplate :
                  CountPrinciple(g.out.problems, principle) = K
            /\ Len(g.out.problems) = K * Cardinality(WithTemplate)
            /\ Len(g.groups) = Len(g.out.problems)
            /\ \A i \in DOMAIN g.groups :
                  /\ CountOf(g.out.problems, g.groups[i]) = CountOf(g.groups, g.groups[i])
                  /\ g.groups[i].principle = TEMPLATE_MAP[((i - 1) \div K) + 1]

\* a balanced set of 2 per principle, returned in another order than generated
C15_Witness ==
    /\ generated # None
    /\ generated[1].call = "generate_balanced_set"
    /\ generated[1].n = 2
    /\ Len(generated[1].out.problems) = 12
    /\ generated[1].out.problems # generated[1].groups

\* the recorded operands and operators evaluated strictly from the left: the
\* running value after the operators from position i on are applied to acc
RECURSIVE LeftToRight(_, _, _, _)
LeftToRight(acc, numbers, operators, i) ==
    IF i > Len(operators) THEN acc
    ELSE LeftToRight(CASE operators[i] = "+" -> acc + numbers[i + 1]
                       [] operators[i] = "-" -> acc - numbers[i + 1]
                       [] operators[i] = "*" -> acc * numbers[i + 1],
                     numbers, operators, i + 1)

\* the problems of the principle that the generator call returned
ReturnedOf(principle) ==
    IF generated = None THEN {}
    ELSE {generated[1].out.problems[i] : i \in
             {j \in DOMAIN generated[1].out.problems :
                 generated[1].out.problems[j].principle = principle}}

\* C23: every multi_step problem records one more operand than operators, 2
\* operators at medium difficulty and 3 otherwise, and the recorded operands
\* and operators evaluated strictly left to right, without operator
\* precedence, give the stored answer.
C23_MultiStepLeftToRight ==
    \A problem \in ReturnedOf("multi_step") :
        LET numbers == problem.metadata.numbers
            operators == problem.metadata.operators
        IN  /\ Len(numbers) = Len(operators) + 1
            /\ Len(operators) = (IF problem.difficulty = "medium" THEN 2 ELSE 3)
            /\ \A i \in DOMAIN operators : operators[i] \in {"+", "-", "*"}
            /\ problem.answer = StrInt(LeftToRight(numbers[1], numbers, operators, 1))

\* 1 + 20 * 20 at medium difficulty has the answer 420, where precedence
\* gives 401
C23_Witness ==
    /\ generated # None
    /\ generated[1].call = "generate_problem"
    /\ generated[1].principle = "multi_step"
    /\ generated[1].difficulty = "medium"
    /\ Len(generated[1].out.problems) = 1
    /\ generated[1].out.problems[1].metadata.numbers = <<1, 20, 20>>
    /\ generated[1].out.problems[1].metadata.operators = <<"+", "*">>
    /\ generated[1].out.problems[1].answer = <<"4", "2", "0">>

\* the division problems among the basic_arithmetic problems returned
Divisions == {problem \in ReturnedOf("basic_arithmetic") : problem.metadata.operator = "/"}

\* C24: an easy basic_arithmetic division has a divisor in 1..10 and a
\* dividend that is the divisor times a value in 1..10, so the dividend is a
\* multiple of the divisor and the answer is the exact quotient; the metadata
\* and the question text show these operands. At every difficulty the divisor
\* of a division is not 0.
C24_EasyDivisionExact ==
    \A problem \in Divisions :
        LET a == problem.metadata.a
            b == problem.metadata.b
        IN  /\ b # 0
            /\ problem.difficulty = "easy" =>
                  /\ b \in 1..10
                  /\ \E k \in 1..10 : a = b * k
                  /\ a % b = 0
                  /\ problem.answer = StrInt(a \div b)
                  /\ problem.question = Str(a) \o <<" ", "/", " ">> \o Str(b)
                                            \o <<" ", "=", " ", "?">>

\* the easy division 100 / 10 = ? with the answer 10
C24_Witness ==
    /\ generated # None
    /\ generated[1].call = "generate_problem"
    /\ generated[1].difficulty = "easy"
    /\ \E problem \in Divisions :
          /\ problem.metadata.a = 100
          /\ problem.metadata.b = 10
          /\ problem.answer = <<"1", "0">>

----------------------------------------------------------------------------
(* Claims on summarize_results, under SpecSummary.                         *)

\* the sum of a field of the statistics of every group
GroupSum(groups, field) == Sum([j \in DOMAIN groups |-> groups[j][2][field]])

\* the group totals sum to the total, the group corrects to the correct, and
\* each group's accuracy is its own correct / total
GroupsAddUp(groups, s) ==
    /\ GroupSum(groups, "total") = s.total_problems
    /\ GroupSum(groups, "correct") = s.correct
    /\ \A j \in DOMAIN groups :
          groups[j][2].accuracy = <<groups[j][2].correct, groups[j][2].total>>

\* C19: for a non-empty result list the summary has total_problems = n,
\* correct + incorrect = total, accuracy = correct / total; the by_principle
\* and by_difficulty group totals sum to the total and their corrects to
\* correct, each group's accuracy is its own correct / total; total_tokens is
\* the sum of the prompt and completion tokens of the results.
C19_SummaryAddsUp ==
    (summary # None /\ summary[1].out # None /\ summary[1].results # <<>>) =>
        LET rs == summary[1].results
            out == summary[1].out[1]
        IN  /\ ~out.raised
            /\ LET s == out.summary[1] IN
               /\ s.total_problems = Len(rs)
               /\ s.correct + s.incorrect = s.total_problems
               /\ s.correct = Cardinality({i \in DOMAIN rs : rs[i].is_correct})
               /\ s.accuracy = <<s.correct, s.total_problems>>
               /\ GroupsAddUp(s.by_principle, s)
               /\ GroupsAddUp(s.by_difficulty, s)
               /\ s.total_tokens =
                     Sum([i \in DOMAIN rs |-> rs[i].prompt_tokens])
                   + Sum([i \in DOMAIN rs |-> rs[i].completion_tokens])

\* two results of different principles and difficulties, one of them correct,
\* have been summarized
C19_Witness ==
    /\ summary # None
    /\ summary[1].out # None
    /\ Len(summary[1].results) = 2
    /\ summary[1].results[1].principle # summary[1].results[2].principle
    /\ summary[1].results[1].is_correct
    /\ ~summary[1].results[2].is_correct
    /\ Len(summary[1].out[1].summary[1].by_principle) = 2
    /\ Len(summary[1].out[1].summary[1].by_difficulty) = 2

----------------------------------------------------------------------------
(* Claims on symboval.evaluate, under SpecCycle.                           *)

\* C16: evaluate(problems=None, num_problems=N) generates and evaluates
\* exactly N problems, for every N >= 1 and every choice of principles, None
\* included: the result list has N entries and summary.total_problems = N.
C16_ExactlyNProblems ==
    (cycle # None /\ cycle[1].pc \in {"returned", "raised"}
                  /\ cycle[1].num_problems >= 1) =>
        /\ ~cycle[1].out.raised
        /\ Len(cycle[1].out.generated) = cycle[1].num_problems
        /\ Len(cycle[1].out.results) = cycle[1].num_problems
        /\ cycle[1].out.summary[1].total_problems = cycle[1].num_problems

----------------------------------------------------------------------------
(* Claims on extract_answer and check_answer, under SpecAnswer.            *)

Whitespace == {" ", "\n", "\t", "\r", "\f"}

\* the positions a..b of r hold whitespace only
AllSpace(r, a, b) == \A i \in a..b : i \in DOMAIN r /\ r[i] \in Whitespace

\* the word, in lower or upper case, stands at p
WordAt(r, p, word) ==
    /\ p >= 1
    /\ p + Len(word) - 1 <= Len(r)
    /\ \A k \in DOMAIN word :
          \/ r[p + k - 1] = word[k]
          \/ <<word[k], r[p + k - 1]>> \in
                {<<"a", "A">>, <<"n", "N">>, <<"s", "S">>, <<"w", "W">>,
                 <<"e", "E">>, <<"r", "R">>, <<"i", "I">>}

\* a signed integer or decimal: an optional sign, digits, and at most one
\* point with digits on both sides
IsNumeral(t) ==
    LET b == IF t # <<>> /\ t[1] \in {"+", "-"} THEN Tail(t) ELSE t
        points == {i \in DOMAIN b : b[i] = "."}
    IN  /\ b # <<>>
        /\ \A i \in DOMAIN b : b[i] \in Range(Digits) \cup {"."}
        /\ Cardinality(points) <= 1
        /\ \A i \in points : 1 < i /\ i < Len(b)

\* the longest numeral that starts at n, None if no numeral starts there
NumeralFrom(r, n) ==
    LET ends == {e \in n..Len(r) : IsNumeral(SubSeq(r, n, e))}
    IN  IF ends = {} THEN None
        ELSE Some(SubSeq(r, n, CHOOSE e \in ends : \A f \in ends : f <= e))

\* <<p, n>>: "answer", then "is" or ":", stand at p and a numeral starts at n,
\* with nothing but whitespace between them
AnswerIsNumber(r) ==
    { pn \in (1..Len(r)) \X (1..Len(r)) :
        /\ WordAt(r, pn[1], <<"a", "n", "s", "w", "e", "r">>)
        /\ NumeralFrom(r, pn[2]) # None
        /\ \E a \in (pn[1] + 6)..pn[2] :
              /\ AllSpace(r, pn[1] + 6, a - 1)
              /\ \/ WordAt(r, a, <<"i", "s">>) /\ a + 2 <= pn[2]
                                               /\ AllSpace(r, a + 2, pn[2] - 1)
                 \/ WordAt(r, a, <<":">>) /\ a + 1 <= pn[2]
                                          /\ AllSpace(r, a + 1, pn[2] - 1) }

\* <<p, n>>: "=" stands at p, a numeral starts at n after whitespace at most,
\* and nothing but whitespace follows the numeral to the end of the response
EqualsNumberAtEnd(r) ==
    { pn \in (1..Len(r)) \X (1..Len(r)) :
        /\ r[pn[1]] = "="
        /\ pn[1] < pn[2]
        /\ AllSpace(r, pn[1] + 1, pn[2] - 1)
        /\ NumeralFrom(r, pn[2]) # None
        /\ AllSpace(r, pn[2] + Len(NumeralFrom(r, pn[2])[1]), Len(r)) }

\* of a set of <<p, n>>, the one with the least p
Leftmost(S) == CHOOSE pn \in S : \A qm \in S : pn[1] <= qm[1]

\* the positions of the digits of r
DigitPositions(r) == {i \in DOMAIN r : r[i] \in Range(Digits)}

\* C17: extract_answer applies three patterns in a fixed precedence: the
\* number of "answer is X" / "Answer: X"; else the number next to an "=" at the
\* very end; else the last number of the response; None when there is none.
\* "... the answer is 42" gives "42", "5 + 3 = 8" gives "8", and
\* "...final result: 17 widgets and 3 boxes" gives "3".
C17_ExtractPrecedence ==
    (answered # None /\ answered[1].call = "extract_answer" /\ answered[1].out # None) =>
        LET r == answered[1].response
            got == answered[1].out[1]
        IN  /\ IF AnswerIsNumber(r) # {}
               THEN got = NumeralFrom(r, Leftmost(AnswerIsNumber(r))[2])
               ELSE IF EqualsNumberAtEnd(r) # {}
               THEN got = NumeralFrom(r, Leftmost(EqualsNumberAtEnd(r))[2])
               ELSE IF DigitPositions(r) # {}
               THEN /\ got # None
                    /\ IsNumeral(got[1])
                    /\ \E a \in DOMAIN r :
                          /\ got[1] = SubSeq(r, a, CHOOSE i \in DigitPositions(r) :
                                                     \A j \in DigitPositions(r) : j <= i)
                          /\ (a > 1 /\ r[a] \in Range(Digits)) =>
                                r[a - 1] \notin Range(Digits)
               ELSE got = None
            /\ r = <<".", ".", ".", " ", "t", "h", "e", " ", "a", "n", "s", "w", "e", "r",
                     " ", "i", "s", " ", "4", "2">> => got = Some(<<"4", "2">>)
            /\ r = <<"5", " ", "+", " ", "3", " ", "=", " ", "8">> => got = Some(<<"8">>)
            /\ (Len(r) = 39 /\ SubSeq(r, 17, 39) =
                    <<" ", "1", "7", " ", "w", "i", "d", "g", "e", "t", "s", " ", "a",
                      "n", "d", " ", "3", " ", "b", "o", "x", "e", "s">>)
                  => got = Some(<<"3">>)

\* a response with both an "answer is" number and another number next to an
\* "=" at its end has been given, and the first was extracted
C17_Witness ==
    /\ answered # None
    /\ answered[1].call = "extract_answer"
    /\ answered[1].response = <<"a", "n", "s", "w", "e", "r", " ", "i", "s", " ",
                                "4", "2", "=", " ", "7">>
    /\ answered[1].out = Some(Some(<<"4", "2">>))

\* the text without the whitespace at its ends
Trimmed(text) ==
    LET inked == {i \in DOMAIN text : text[i] \notin Whitespace}
    IN  IF inked = {} THEN <<>>
        ELSE SubSeq(text, CHOOSE i \in inked : \A j \in inked : i <= j,
                          CHOOSE i \in inked : \A j \in inked : j <= i)

\* both are finite numbers: neither an infinity nor a nan
BothFinite(a, b) == a.special = "" /\ b.special = ""

\* the lower of the two decimal exponents, and the digits of a numeral as a
\* whole number of units of 10^e
LowerExponent(a, b) == Min2(a.exp10, b.exp10)
DigitsAt(a, e) == BigTimesPow(BigOfDigits(NoLeadingZeros(a.digits)), 10, a.exp10 - e)

\* |a - b| of two numerals in units of 10^LowerExponent(a, b), exactly
DecimalDifference(a, b) ==
    LET x == DigitsAt(a, LowerExponent(a, b))
        y == DigitsAt(b, LowerExponent(a, b))
    IN  IF a.neg # b.neg THEN BigAdd(x, y)
        ELSE IF BigLess(x, y) THEN BigSub(y, x)
        ELSE BigSub(x, y)

\* |a - b| is below 0.01: never when one of the two is an infinity or a nan,
\* whose difference from anything is an infinity or a nan
DifferenceBelowHundredth(a, b) ==
    /\ BothFinite(a, b)
    /\ IF LowerExponent(a, b) + 2 >= 0 THEN DecimalDifference(a, b) = <<>>
       ELSE BigLess(DecimalDifference(a, b),
                    BigTimesPow(Big(1), 10, 0 - LowerExponent(a, b) - 2))

\* a call of check_answer has returned
Checked ==
    /\ answered # None
    /\ answered[1].call = "check_answer"
    /\ answered[1].out # None

\* C18 as stated: check_answer is False when extracted is None; when both
\* strings parse as numbers it is True if and only if the absolute difference
\* of the two numbers is below 0.01; when either fails to parse it is True if
\* and only if the trimmed strings are equal.
C18_BelowToleranceExactly ==
    Checked =>
        LET extracted == answered[1].extracted
            expected == answered[1].expected
            out == answered[1].out[1]
        IN  IF extracted = None THEN out = FALSE
            ELSE LET a == ParseFloat(extracted[1])
                     b == ParseFloat(expected)
                 IN  IF a # None /\ b # None
                     THEN out <=> DifferenceBelowHundredth(a[1], b[1])
                     ELSE out <=> Trimmed(extracted[1]) = Trimmed(expected)

\* An exact value [n, e10, e2] is n * 10^e10 * 2^e2; a grid point [m, k] is
\* m / 2^k.  The doubles that are not negative are the grid points with m of
\* 53 bits and k from MinScale to MaxScale and those with a shorter m and
\* k = MaxScale; an infinity stands where the next one would, at 2^52 and
\* MinScale - 1.
NumeralValue(a) == [n |-> BigOfDigits(NoLeadingZeros(a.digits)), e10 |-> a.exp10, e2 |-> 0]

TwoTo52 == BigShift(Big(1), SignificandBits - 1)

IsDouble(f) ==
    \/ f.special = "inf"
    \/ /\ f.special = ""
       /\ f.k >= MinScale /\ f.k <= MaxScale
       /\ BigBitLen(f.m) <= SignificandBits
       /\ BigBitLen(f.m) < SignificandBits => f.k = MaxScale

GridOf(f) ==
    IF f.special = "inf" THEN [m |-> TwoTo52, k |-> MinScale - 1]
    ELSE [m |-> f.m, k |-> f.k]

\* the grid point next above g, and the one next below a g that is not zero
Above(g) ==
    IF BigBitLen(BigAdd(g.m, Big(1))) > SignificandBits
    THEN [m |-> TwoTo52, k |-> g.k - 1]
    ELSE [m |-> BigAdd(g.m, Big(1)), k |-> g.k]
Below(g) ==
    IF g.m = TwoTo52 /\ g.k < MaxScale
    THEN [m |-> BigSub(BigShift(Big(1), SignificandBits), Big(1)), k |-> g.k + 1]
    ELSE [m |-> BigSub(g.m, Big(1)), k |-> g.k]

\* the value and the grid point, both times 2^S and 10^-e10 if e10 < 0, which
\* makes whole numbers of them for an S that is large enough
ValueScaled(v, S) ==
    BigShift(BigTimesPow(v.n, 10, IF v.e10 > 0 THEN v.e10 ELSE 0), S + v.e2)
GridScaled(g, v, S) ==
    BigShift(BigTimesPow(g.m, 10, IF v.e10 < 0 THEN 0 - v.e10 ELSE 0), S - g.k)

\* |v - g|, so scaled
Gap(g, v, S) ==
    IF BigLess(ValueScaled(v, S), GridScaled(g, v, S))
    THEN BigSub(GridScaled(g, v, S), ValueScaled(v, S))
    ELSE BigSub(ValueScaled(v, S), GridScaled(g, v, S))

\* g is nearer to v than h is, or as near with an even m
NotFarther(g, h, v, S) ==
    \/ BigLess(Gap(g, v, S), Gap(h, v, S))
    \/ Gap(g, v, S) = Gap(h, v, S) /\ ~BigOdd(g.m)

\* f is the double v rounds to: none of its two neighbours on the grid is
\* nearer to v, and none is as near unless the m of f is the even one
NearestOnGrid(g, v, S) ==
    /\ g.k >= MinScale => NotFarther(g, Above(g), v, S)
    /\ g.m # <<>> => NotFarther(g, Below(g), v, S)
NearestDouble(f, v) ==
    /\ IsDouble(f)
    /\ NearestOnGrid(GridOf(f), v, Max2(Max2(GridOf(f).k + 1, 0 - v.e2), 0))

\* |x - y| of two finite doubles, exactly
DoublesDifference(x, y) ==
    LET k == Max2(x.k, y.k)
        xm == BigShift(x.m, k - x.k)
        ym == BigShift(y.m, k - y.k)
    IN  [n |-> IF x.neg # y.neg THEN BigAdd(xm, ym)
               ELSE IF BigLess(xm, ym) THEN BigSub(ym, xm)
               ELSE BigSub(xm, ym),
         e10 |-> 0, e2 |-> 0 - k]

\* d < t for two finite doubles that are not negative
DoubleBelow(d, t) ==
    BigLess(BigShift(d.m, Max2(d.k, t.k) - d.k), BigShift(t.m, Max2(d.k, t.k) - t.k))

\* t is the double nearest to 0.01
IsHundredth(t) == NearestDouble(t, [n |-> Big(1), e10 |-> -2, e2 |-> 0])

\* d is |x - y| rounded to a double, and is finite and below t
RoundedDifferenceBelow(x, y, d, t) ==
    /\ NearestDouble(d, DoublesDifference(x, y))
    /\ d.special = ""
    /\ DoubleBelow(d, t)

\* x and y are the doubles of the numerals a and b, and out is as their
\* difference in doubles has it
ComparedAsDoubles(a, b, x, y, out) ==
    /\ NearestDouble(x, NumeralValue(a)) /\ x.neg = a.neg
    /\ NearestDouble(y, NumeralValue(b)) /\ y.neg = b.neg
    /\ IsHundredth(Tolerance)
    /\ out <=> /\ x.special = "" /\ y.special = ""
               /\ RoundedDifferenceBelow(x, y, FloatAbsDiff(x, y), Tolerance)
    /\ (x.special = "" /\ y.special = "") =>
          NearestDouble(FloatAbsDiff(x, y), DoublesDifference(x, y))

\* C18, amended: check_answer is False when extracted is None.  When float()
\* reads both strings as numbers, they are compared as doubles: with x and y
\* the doubles nearest to the two numbers (ties to the even significand, an
\* infinity beyond the largest double), the result is True if and only if x
\* and y are finite and |x - y|, rounded to the nearest double, is a finite
\* double below the double nearest to 0.01; an "inf" or a "nan" gives False.
\* When float() rejects either string, the result is True if and only if the
\* trimmed strings are equal.  check_answer("8.0", "8") is True and
\* check_answer("eight", "8") is False.
C18_BelowToleranceInDoubles ==
    Checked =>
        LET extracted == answered[1].extracted
            expected == answered[1].expected
            out == answered[1].out[1]
        IN  /\ IF extracted = None THEN out = FALSE
               ELSE LET a == ParseFloat(extracted[1])
                        b == ParseFloat(expected)
                    IN  IF a # None /\ b # None
                        THEN IF BothFinite(a[1], b[1])
                             THEN ComparedAsDoubles(a[1], b[1], FloatOf(a[1]),
                                                    FloatOf(b[1]), out)
                             ELSE ~out
                        ELSE out <=> Trimmed(extracted[1]) = Trimmed(expected)
            /\ (extracted = Some(<<"8", ".", "0">>) /\ expected = <<"8">>) => out
            /\ (extracted = Some(<<"e", "i", "g", "h", "t">>) /\ expected = <<"8">>) => ~out

\* check_answer("9007199254740993", "9007199254740992") has returned True: the
\* two numbers are 1 apart and their doubles are equal
C18_Witness ==
    /\ Checked
    /\ answered[1].extracted = Some(<<"9", "0", "0", "7", "1", "9", "9", "2", "5", "4",
                                      "7", "4", "0", "9", "9", "3">>)
    /\ answered[1].expected = <<"9", "0", "0", "7", "1", "9", "9", "2", "5", "4", "7", "4",
                                "0", "9", "9", "2">>
    /\ answered[1].out = Some(TRUE)

----------------------------------------------------------------------------
(* Claims on the API-key store, under SpecConfig.                          *)

\* the calls that bear on the provider's key, in their order: its set_api_key
\* and remove_api_key calls, and every clear_all
CallsFor(calls, provider) ==
    SelectSeq(calls, LAMBDA call : call.provider = provider \/ call.op = "clear")

\* get_api_key has returned, after at least one such call for its provider
GotAfterCalls ==
    /\ config # None
    /\ config[1].got # None
    /\ CallsFor(config[1].calls, config[1].got[1].provider) # <<>>

\* only set_api_key and remove_api_key have been called
OnlySetAndRemove == \A i \in DOMAIN config[1].calls : config[1].calls[i].op # "clear"

\* the key of the last call for the provider if that was a set, None if it
\* was a remove or a clear_all
LastSet(calls, provider) ==
    LET mine == CallsFor(calls, provider) IN mine[Len(mine)].api_key

\* the environment holds a key for the provider
InEnvironment(provider) ==
    config[1].environ[IF provider = "openrouter" THEN "OPENROUTER_API_KEY"
                      ELSE "OPENAI_API_KEY"] \notin {None, Some("")}

\* C20 as stated: after any sequence of set_api_key / remove_api_key calls for
\* a provider, get_api_key returns the key of the most recent set_api_key that
\* has not been followed by remove_api_key, and None after remove_api_key.
C20_LastSetOrNone ==
    (GotAfterCalls /\ OnlySetAndRemove) =>
        config[1].got[1].api_key = LastSet(config[1].calls, config[1].got[1].provider)

\* C20, amended: that holds when the environment variable <PROVIDER>_API_KEY
\* is unset or empty; when it holds a key, get_api_key returns that key
\* whatever was set or removed.  A clear_all among the calls counts as a
\* remove_api_key for every provider.
C20_LastSetOrNoneUnlessInEnvironment ==
    GotAfterCalls =>
        LET got == config[1].got[1] IN
        IF InEnvironment(got.provider)
        THEN got.api_key = config[1].environ[IF got.provider = "openrouter"
                                             THEN "OPENROUTER_API_KEY"
                                             ELSE "OPENAI_API_KEY"]
        ELSE got.api_key = LastSet(config[1].calls, got.provider)

\* with no key in the environment: set "test-key-123", remove, and the get
\* after them gave None
C20_Witness ==
    /\ GotAfterCalls
    /\ ~InEnvironment("openrouter")
    /\ Len(config[1].calls) = 2
    /\ config[1].calls[1] = [op |-> "set", provider |-> "openrouter",
                             api_key |-> Some("test-key-123")]
    /\ config[1].calls[2].op = "remove"
    /\ config[1].calls[2].provider = "openrouter"
    /\ config[1].got[1] = [provider |-> "openrouter", api_key |-> None]

----------------------------------------------------------------------------
(* Claims on the dataset converter, under SpecDataset.                     *)

\* the load_deepmind_dataset call made, if one was made from a file that exists
LoadCalls ==
    IF loaded # None /\ loaded[1].call = "load_deepmind_dataset"
          /\ loaded[1].format # "missing"
    THEN {loaded[1]} ELSE {}

\* the record can be turned into a Problem
Convertible(record) == parse_deepmind_problem(record, None) # None

\* the filter is given and the record's module holds none of its substrings
FilteredOut(record, filter_modules) ==
    /\ filter_modules # None
    /\ filter_modules[1] # <<>>
    /\ ~\E i \in DOMAIN filter_modules[1] :
           Contains(DataGet(record, "module", JStr(<<>>)).value, filter_modules[1][i])

\* the Problems of the valid records the filter lets through, in input order
ValidProblems(records, filter_modules) ==
    LET valid == SelectSeq(records,
                    LAMBDA r : Convertible(r) /\ ~FilteredOut(r, filter_modules))
    IN  [i \in DOMAIN valid |-> parse_deepmind_problem(valid[i], None)[1]]

\* the first n elements of a list
FirstN(seq, n) == SubSeq(seq, 1, Min2(n, Len(seq)))

\* C21: load_deepmind_dataset skips every record that cannot be turned into a
\* Problem (a line that is not JSON, a record that is no JSON object, a record
\* with a wrongly typed field) and returns all valid records before and after
\* it in input order, in both formats, with or without filter_modules; one
\* malformed record never aborts the load.
C21_SkipsMalformedRecords ==
    \A call \in LoadCalls :
        call.max_problems = None =>
            /\ call.out.error = None
            /\ call.out.problems = ValidProblems(call.records, call.filter_modules)

\* the same for the loads without filter_modules
C21_SkipsMalformedWithoutFilter ==
    \A call \in LoadCalls :
        (call.max_problems = None /\ call.filter_modules = None) =>
            /\ call.out.error = None
            /\ call.out.problems = ValidProblems(call.records, call.filter_modules)

\* C22: with a cap max_problems = M, M >= 0, the list returned has at most M
\* problems, and they are the first M records accepted (after the filter) in
\* input order.
C22_AtMostMProblems ==
    \A call \in LoadCalls :
        (call.max_problems # None /\ call.max_problems[1] >= 0) =>
            LET M == call.max_problems[1]
                accepted == load_deepmind_dataset(call.format, call.records, None,
                                                  call.filter_modules).problems
            IN  /\ Len(call.out.problems) <= M
                /\ call.out.problems = FirstN(accepted, M)

\* the same for the caps M >= 1
C22_AtMostMProblemsPositiveCap ==
    \A call \in LoadCalls :
        (call.max_problems # None /\ call.max_problems[1] >= 1) =>
            LET M == call.max_problems[1]
                accepted == load_deepmind_dataset(call.format, call.records, None,
                                                  call.filter_modules).problems
            IN  /\ Len(call.out.problems) <= M
                /\ call.out.problems = FirstN(accepted, M)

\* the convert_custom_dataset call made, if one was made
ConvertCalls ==
    IF loaded # None /\ loaded[1].call = "convert_custom_dataset"
    THEN {loaded[1]} ELSE {}

\* the record carries the field and its value is not the empty string
Carries(record, field) ==
    /\ record.kind = "object"
    /\ record[field] # None
    /\ record[field][1] # JStr(<<>>)

\* C30: convert_custom_dataset returns, in input order, one Problem for each
\* record that carries a question and an answer; a record is skipped only when
\* its question or its answer is missing or the empty string, so a record
\* whose answer is the number 0 is converted, with the answer "0".
C30_OneProblemPerRecord ==
    \A call \in ConvertCalls :
        LET carrying == SelectSeq(call.records,
                           LAMBDA r : Carries(r, "question") /\ Carries(r, "answer"))
        IN  /\ call.out.error = None
            /\ Len(call.out.problems) = Len(carrying)
            /\ \A i \in DOMAIN carrying :
                  /\ call.out.problems[i].metadata.original_data = carrying[i]
                  /\ call.out.problems[i].answer = PyStr(carrying[i].answer[1])

----------------------------------------------------------------------------
(* Claims on OpenRouterClient, under SpecClient.                           *)

\* the call of complete that was made, and the call of batch_complete that
\* has returned or raised
CompleteCalls == client # None /\ client[1].call = "complete"
BatchCalls ==
    /\ client # None
    /\ client[1].call = "batch_complete"
    /\ client[1].pc \in {"returned", "raised"}

\* a 2xx JSON object without "choices", with an empty choices array, or whose
\* first choice has no message content
UnexpectedShape(body) ==
    /\ body.kind = "object"
    /\ \/ body.choices = None
       \/ body.choices[1] = <<>>
       \/ body.choices[1][1] = None
       \/ body.choices[1][1][1] = None

\* the call raised the descriptive failure whose message starts with prefix
DescriptiveFailure(out, prefix) ==
    /\ out.raised
    /\ out.error = "RuntimeError"
    /\ Head(out.text) = prefix

\* C25: complete reports every remote failure as its descriptive failure: a
\* non-2xx status as the API error carrying the status and the body, a body
\* that is not JSON as the parse failure, a 2xx body of unexpected shape (no
\* "choices", an empty choices array, a choice without message content) as the
\* unexpected-response-format failure; no other exception type escapes.
C25_EveryRemoteFailureIsDescriptive ==
    CompleteCalls =>
        LET reply == client[1].replies[1]
            out == client[1].out
            ok == reply.status >= 200 /\ reply.status <= 299
        IN /\ ~ok =>
                 /\ DescriptiveFailure(out, "OpenRouter API error: ")
                 /\ out.text = <<"OpenRouter API error: ">> \o Str(reply.status)
                                   \o <<" - ">> \o reply.body.text
           /\ (ok /\ reply.body.kind = "not_json") =>
                 DescriptiveFailure(out, "Failed to parse OpenRouter response: ")
           /\ (ok /\ UnexpectedShape(reply.body)) =>
                 DescriptiveFailure(out, "Unexpected response format from OpenRouter: ")
           /\ out.raised => out.error = "RuntimeError"

\* the requests of a batch of n prompts with a delay after each but the last
DelayAfterEachButLast(n) ==
    [k \in 1..(IF n = 0 THEN 0 ELSE 2 * n - 1) |->
        IF k % 2 = 1 THEN <<"request", (k + 1) \div 2>> ELSE <<"sleep", k \div 2>>]

\* C28: batch_complete returns one response per prompt, in the order of the
\* prompts, a failed request giving an empty placeholder response, and it
\* waits the delay after each request except the last, whether that request
\* succeeded or failed.
C28_OneResponsePerPromptDelayAfterEach ==
    BatchCalls =>
        LET call == client[1]
            n == Len(call.prompts)
        IN /\ Len(call.out.responses) = n
           /\ \A i \in 1..n :
                 LET made == complete(call.prompts[i], RequestedModel, call.replies[i])
                 IN IF made.raised
                      THEN /\ call.out.responses[i].response = <<>>
                           /\ call.out.responses[i].error = Some(made.text)
                      ELSE call.out.responses[i] = made.value
           /\ call.out.events = DelayAfterEachButLast(n)

\* C28, as the code has it: when the call returns there is one response per
\* prompt in order, and the delay was taken after request i exactly when i is
\* not the last and succeeded.
C28_DelayOnlyAfterSuccess ==
    (BatchCalls /\ client[1].pc = "returned") =>
        LET call == client[1]
            n == Len(call.prompts)
        IN /\ Len(call.out.responses) = n
           /\ \A i \in 1..n :
                 LET made == complete(call.prompts[i], RequestedModel, call.replies[i])
                 IN /\ made.raised <=> call.out.responses[i].error # None
                    /\ (\E k \in DOMAIN call.out.events : call.out.events[k] = <<"sleep", i>>)
                          <=> (i < n /\ ~made.raised)

\* C25, as the code has it: the failures other than an empty choices array
\* are reported as the descriptive failure.
C25_DescriptiveUnlessChoicesEmpty ==
    CompleteCalls =>
        LET reply == client[1].replies[1]
            out == client[1].out
            ok == reply.status >= 200 /\ reply.status <= 299
        IN /\ ~ok => DescriptiveFailure(out, "OpenRouter API error: ")
           /\ (ok /\ reply.body.kind = "not_json") =>
                 DescriptiveFailure(out, "Failed to parse OpenRouter response: ")
           /\ (ok /\ UnexpectedShape(reply.body) /\ reply.body.choices # Some(<<>>)) =>
                 DescriptiveFailure(out, "Unexpected response format from OpenRouter: ")

----------------------------------------------------------------------------
(* Claims on the functions of the package, under SpecApi.                  *)

\* a prompt with a legend was built for the problem
PromptedCalls ==
    IF facade # None /\ facade[1].legend # None /\ facade[1].num_examples > 0
    THEN {facade[1]} ELSE {}

\* every legend line of the call's prompt gives a glyph and the meaning of the
\* token that glyph stands for in the mapper that rendered the problem
LegendOfRenderingMapper(call) ==
    LET entries == LegendEntries(call.legend[1]) IN
    \A i \in DOMAIN entries :
        \E k \in DOMAIN call.rendered_by.mappings :
            /\ call.rendered_by.mappings[k][2] = entries[i][1]
            /\ Meaning(call.rendered_by.mappings[k][1]) = entries[i][2]

\* C27: for a problem P rendered in novel notation by generate_problem or
\* generate_problems, every legend line of the prompt generate_prompt,
\* generate_prompts or evaluate builds for P states the glyph-to-token
\* assignment of the mapper that rendered P, whatever the seed arguments of
\* the two calls are (equal, different, None).
C27_LegendOfRenderingMapper ==
    \A call \in PromptedCalls : LegendOfRenderingMapper(call)

\* C27, as the code has it: the legend is that of the rendering mapper when
\* the two calls are given the same seed and it is not None.
C27_LegendOfRenderingMapperEqualSeeds ==
    \A call \in PromptedCalls :
        (call.problem_seed = call.prompt_seed /\ call.problem_seed # None)
           => /\ call.builder = call.rendered_by
              /\ LegendOfRenderingMapper(call)

====
